---- MODULE Spec2Model ----
(***************************************************************************)
(* Review Intelligence Pipeline of kingofsidejob/product-planning.         *)
(*                                                                         *)
(* Four state machines share this module:                                  *)
(*   SpecCollector - OliveyoungReviewCrawler.crawl_reviews and its          *)
(*                   scroll-and-collect loop                                *)
(*                   (src/modules/oliveyoung_review_crawler.py)             *)
(*   SpecDict      - UspDictionary and detect_new_candidates                *)
(*                   (src/modules/usp_dictionary.py)                        *)
(*   SpecPersist   - UspDictionary with its three files: _load_all,         *)
(*                   the administrative calls, save_all                     *)
(*   SpecAnalysis  - the batch calls: analyze_sentiment_with_context,       *)
(*                   analyze_reviews, find_competitor_mentions,             *)
(*                   extract_unique_features,                               *)
(*                   extract_comparison_sentences,                          *)
(*                   analyze_marketing_points                               *)
(*                   (src/modules/review_analyzer.py),                      *)
(*                   UspDictionary.extract_usp_candidates and               *)
(*                   detect_new_candidates                                  *)
(* Python strings are modelled as sequences of one-character strings, so    *)
(* slicing (content[:50]), concatenation (f"{a}_{b}") and the substring     *)
(* test (keyword in text) are computed, not assumed.                        *)
(***************************************************************************)
EXTENDS Integers, Sequences, FiniteSets, TLC

VARIABLES
    \* ---- collector (oliveyoung_review_crawler.py) ----
    pc,                 \* position inside run_review_crawler_sync / crawl_reviews
    max_reviews,        \* argument of crawl_reviews
    total_reviews,      \* product_info['total_reviews']
    target_count,       \* crawl_reviews line 124
    collected_reviews,  \* _scroll_and_collect_reviews line 205
    previous_keys,      \* line 206
    no_new_count,       \* line 207
    no_scroll_count,    \* line 208
    current_scroll,     \* line 245, window.scrollY before the scroll of the iteration
    new_scroll,         \* line 248, window.scrollY after it; both 0 outside a scroll
    i,                  \* loop index of line 210 (iterations completed)
    new_count,          \* line 215, of the latest round
    current_reviews,    \* line 212, what the latest extraction returned
    page_unchanged,     \* the latest round read the same page as the round before it
    loop_exit,          \* which statement ended the for loop
    result,             \* what run_review_crawler_sync hands to its caller
    goto_calls,         \* calls of page.goto made so far
    selector_calls,     \* calls of page.wait_for_selector made so far
    selector_timeouts,  \* how many of them timed out
    \* ---- USP dictionary (usp_dictionary.py) ----
    keywords,           \* _trigger_data["categories"][c]["keywords"], per category
    exclusion,          \* _exclusion_data["words"]
    candidates,         \* _candidate_data["candidates"]
    rejected,           \* _candidate_data["rejected"]
    last,               \* the latest dictionary call: operation, arguments, return value
    ever_rejected,      \* words for which reject_candidate has returned True
    \* ---- the dictionary's files ----
    trigger_file,       \* the document at trigger_path
    exclusion_file,     \* the document at exclusion_path
    candidate_file,     \* the document at candidate_path
    dict_state,         \* "unloaded" before __init__, then "loaded" or "load_failed"
    \* ---- batch analysis (review_analyzer.py, extract_usp_candidates) ----
    analysis            \* the latest batch call: operation, input, output

collectorVars == <<pc, max_reviews, total_reviews, target_count, collected_reviews,
                   previous_keys, no_new_count, no_scroll_count, i, new_count,
                   current_reviews, page_unchanged, loop_exit, result, goto_calls,
                   selector_calls, selector_timeouts, current_scroll, new_scroll>>

dictVars == <<keywords, exclusion, candidates, rejected, last, ever_rejected>>

fileVars == <<trigger_file, exclusion_file, candidate_file, dict_state>>

vars == <<collectorVars, dictVars, fileVars, analysis>>

----------------------------------------------------------------------------
(* Generic helpers on sequences (Python list / str primitives).            *)

\* s[:n]
Take(s, n) == SubSeq(s, 1, IF Len(s) < n THEN Len(s) ELSE n)

\* x in list
InSeq(x, s) == \E k \in 1..Len(s) : s[k] = x

\* set(list)
SeqToSet(s) == {s[k] : k \in 1..Len(s)}

\* all sequences over S of length lo..hi
SeqsOf(S, lo, hi) == UNION {[1..n -> S] : n \in lo..hi}

\* abs()
Abs(n) == IF n < 0 THEN -n ELSE n

----------------------------------------------------------------------------
(* Collector: bounds and inputs.                                           *)

\* CONFIG['MAX_SCROLL_ITERATIONS'] is 9999, CONFIG['MAX_NO_NEW_REVIEWS'] is 50 and
\* CONFIG['NO_SCROLL_LIMIT'] is 30; the model runs the same loop with the
\* thresholds scaled down, keeping their order (both stall limits below the cap).
MAX_SCROLL_ITERATIONS == 3
MAX_NO_NEW_REVIEWS == 2
NO_SCROLL_LIMIT == 2
\* the 50 of content[:50], scaled to the length of the modelled contents
KEY_PREFIX_LEN == 1
\* most reviews one extraction returns
MaxPageLen == 1
\* pixel tolerance of line 251
SCROLL_TOLERANCE == 10

Nicknames == {<<"n">>, <<"m">>}
Contents == {<<"x">>, <<"x", "y">>}
\* two reviews of one author whose contents begin alike, and a second author
\* with the content of the first review
Reviews == {r \in [nickname : Nicknames, content : Contents] :
               r.nickname = <<"n">> \/ r.content = <<"x">>}
\* what _extract_reviews_from_page can return: any list of reviews, the empty
\* list included (also its result when page.evaluate raises, lines 436-439)
Pages == SeqsOf(Reviews, 0, MaxPageLen)
\* values of window.scrollY the session may report
ScrollPositions == {0, 9, 10, 1200}
\* max_reviews arguments and declared totals tried
MaxReviewChoices == {0, 1, 3}
TotalReviewChoices == {0, 2}

NoResult == [returned |-> FALSE, reviews |-> <<>>, count |-> 0]

----------------------------------------------------------------------------
(* Collector: pure parts of _scroll_and_collect_reviews.                   *)

\* line 219: key = f"{review['nickname']}_{review['content'][:50]}"
ReviewKey(review) == review.nickname \o <<"_">> \o Take(review.content, KEY_PREFIX_LEN)

\* CurrentKeys with line 220 (current_keys.add(key)) left out
CurrentKeys_NotRecorded(page) == {}

\* lines 216-220: current_keys after the for loop over current_reviews
CurrentKeys(page) == {ReviewKey(page[k]) : k \in 1..Len(page)}

\* lines 218-224: the reviews of this round appended to collected_reviews
RECURSIVE NewReviews(_, _)
NewReviews(page, prev) ==
    IF page = <<>> THEN <<>>
    ELSE IF ReviewKey(Head(page)) \notin prev
         THEN <<Head(page)>> \o NewReviews(Tail(page), prev)
         ELSE NewReviews(Tail(page), prev)

\* NextNoNewCount without the else branch of line 238
NextNoNewCount_NoReset(no_new, new) == IF new = 0 THEN no_new + 1 ELSE no_new

\* lines 234-239: no_new_count after a round that appended new reviews
NextNoNewCount(no_new, new) == IF new = 0 THEN no_new + 1 ELSE 0

\* TargetReached without the "target_count > 0" test
TargetReached_NoGuard(target, n) == n >= target

\* line 241
TargetReached(target, n) == target > 0 /\ n >= target

\* line 251
ScrollStalled(cur, new) == Abs(new - cur) < SCROLL_TOLERANCE

\* NextNoScrollCount without the else branch of line 255
NextNoScrollCount_NoReset(no_scroll, cur, new) ==
    IF ScrollStalled(cur, new) THEN no_scroll + 1 ELSE no_scroll

\* lines 251-256: no_scroll_count after a scroll from cur to new
NextNoScrollCount(no_scroll, cur, new) ==
    IF ScrollStalled(cur, new) THEN no_scroll + 1 ELSE 0

\* UniqueByContent keyed like the loop (nickname and content prefix) instead of
\* by the full content
RECURSIVE UniqueByContent_ByKey(_, _)
UniqueByContent_ByKey(revs, seen) ==
    IF revs = <<>> THEN <<>>
    ELSE IF ReviewKey(Head(revs)) \notin seen
         THEN <<Head(revs)>> \o UniqueByContent_ByKey(Tail(revs), seen \cup {ReviewKey(Head(revs))})
         ELSE UniqueByContent_ByKey(Tail(revs), seen)

\* lines 259-265: final dedup by full content, first occurrence kept
RECURSIVE UniqueByContent(_, _)
UniqueByContent(revs, seen) ==
    IF revs = <<>> THEN <<>>
    ELSE IF Head(revs).content \notin seen
         THEN <<Head(revs)>> \o UniqueByContent(Tail(revs), seen \cup {Head(revs).content})
         ELSE UniqueByContent(Tail(revs), seen)

\* TargetCount that ignores the declared total
TargetCount_MaxOnly(maxr, total) == maxr

\* crawl_reviews line 124
TargetCount(maxr, total) == IF maxr > 0 THEN maxr ELSE total

----------------------------------------------------------------------------
(* Dictionary: inputs.                                                   *)

\* Hangul syllables of the modelled texts (each one character of [가-힣]),
\* romanised; every other character is not Hangul
Hangul == {"jjon", "deuk", "geu", "ri", "go"}
Space == " "

\* words the curator's calls are tried with
W1 == <<"jjon", "deuk">>
W2 == <<"deuk", "jjon">>
Words == {W1, W2}

\* categories of the trigger file, in the file's (dict) order
CategoryOrder == <<"visual", "tactile">>
Categories == SeqToSet(CategoryOrder)
\* category arguments tried: the existing ones and one the taxonomy lacks
CategoryInputs == Categories \cup {"nosuch"}
\* suggested_category arguments of add_candidate tried
SuggestedCategories == {"tactile"}
Reasons == {"noise"}

\* min_length / max_length defaults of detect_new_candidates and tokenize_korean
MIN_LENGTH == 2
MAX_LENGTH == 6
\* candidates[:50]
MAX_CANDIDATES == 50
\* example_sentences[:3]
MAX_EXAMPLES == 3

\* sentences of the discovery batches: a reduplicated (onomatopoeia) word, a
\* stop word, and a run of seven syllables, one more than max_length
Onomatopoeia == <<"jjon", "jjon", "jjon", "jjon">>
StopWord == <<"geu", "ri", "go">>
LongRun == <<"jjon", "deuk", "jjon", "deuk", "jjon", "deuk", "jjon">>
\* usp_sentences arguments of detect_new_candidates tried
Batches ==
    { <<>>,
      <<W1, W1>>,
      <<W2 \o <<Space>> \o W2>>,
      <<W1, W2, W1, W2>>,
      <<Onomatopoeia>>,
      <<StopWord, W1, StopWord>>,
      <<LongRun, W2>> }
\* example_sentences arguments tried
ExampleChoices == {<<W1, W2, W1, W2>>}

\* texts find_trigger_words is asked about
MaxTextLen == 3
Texts == SeqsOf({"jjon", "deuk", Space}, 0, MaxTextLen)

----------------------------------------------------------------------------
(* Dictionary: pure parts of usp_dictionary.py.                            *)

\* Python's "keyword in text" on strings
Contains(text, kw) ==
    \E k \in 0..(Len(text) - Len(kw)) : SubSeq(text, k + 1, k + Len(kw)) = kw

\* list.remove(x): the first occurrence goes
RemoveFirst(s, x) ==
    LET k == CHOOSE j \in 1..Len(s) : s[j] = x /\ \A h \in 1..(j - 1) : s[h] # x
    IN  SubSeq(s, 1, k - 1) \o SubSeq(s, k + 1, Len(s))

\* the categories present, in dict order
CategoriesOf(kw) == SelectSeq(CategoryOrder, LAMBDA c : c \in DOMAIN kw)

\* get_all_trigger_keywords
AllTriggerKeywords(kw) == UNION {SeqToSet(kw[c]) : c \in DOMAIN kw}

\* get_rejected_words
RejectedWords(rej) == {rej[k].word : k \in 1..Len(rej)}

\* the keywords of one category found in text, in list order (lines 100-102)
MatchedIn(list, text) == SelectSeq(list, LAMBDA k : Contains(text, k))

\* find_trigger_words, lines 96-104: matched_words over the categories cats
RECURSIVE MatchedWords(_, _, _)
MatchedWords(kw, cats, text) ==
    IF cats = <<>> THEN <<>>
    ELSE MatchedIn(kw[Head(cats)], text) \o MatchedWords(kw, Tail(cats), text)

\* find_trigger_words, lines 103-104: the first category with a match
RECURSIVE MatchedCategory(_, _, _)
MatchedCategory(kw, cats, text) ==
    IF cats = <<>> THEN ""
    ELSE IF MatchedIn(kw[Head(cats)], text) # <<>> THEN Head(cats)
    ELSE MatchedCategory(kw, Tail(cats), text)

\* find_trigger_words; None is the record with found = FALSE
find_trigger_words(kw, text) ==
    LET words == MatchedWords(kw, CategoriesOf(kw), text)
    IN  IF words # <<>>
        THEN [found |-> TRUE, category |-> MatchedCategory(kw, CategoriesOf(kw), text),
              words |-> words]
        ELSE [found |-> FALSE, category |-> "", words |-> <<>>]

\* PendingIndex without the status test: the first candidate with this word
PendingIndex_AnyStatus(cands, word) ==
    IF \E k \in 1..Len(cands) : cands[k].word = word
    THEN CHOOSE k \in 1..Len(cands) :
            /\ cands[k].word = word
            /\ \A h \in 1..(k - 1) : cands[h].word # word
    ELSE 0

\* index of the first pending candidate with this word, 0 when there is none
\* (lines 213-216 and 240-243)
PendingIndex(cands, word) ==
    IF \E k \in 1..Len(cands) : cands[k].word = word /\ cands[k].status = "pending"
    THEN CHOOSE k \in 1..Len(cands) :
            /\ cands[k].word = word /\ cands[k].status = "pending"
            /\ \A h \in 1..(k - 1) : ~(cands[h].word = word /\ cands[h].status = "pending")
    ELSE 0

\* add_candidate lines 189-198: the word may not be added
CandidateExists(kw, rej, cands, word) ==
    \/ word \in AllTriggerKeywords(kw)
    \/ word \in RejectedWords(rej)
    \/ \E k \in 1..Len(cands) : cands[k].word = word

\* AppendIfAbsent with the append left out
AppendIfAbsent_Skip(list, word) == list

\* AppendIfAbsent without the "word not in keywords" test
AppendIfAbsent_Always(list, word) == Append(list, word)

\* approve_candidate lines 225-228: append unless present
AppendIfAbsent(list, word) == IF InSeq(word, list) THEN list ELSE Append(list, word)

\* remove_keyword lines 274-278: the taxonomy after removing word from the first
\* category (dict order) that lists it
RECURSIVE RemoveFromFirst(_, _, _)
RemoveFromFirst(kw, cats, word) ==
    IF cats = <<>> THEN kw
    ELSE IF InSeq(word, kw[Head(cats)])
         THEN [kw EXCEPT ![Head(cats)] = RemoveFirst(kw[Head(cats)], word)]
         ELSE RemoveFromFirst(kw, Tail(cats), word)

\* the stop words of tokenize_korean line 359
StopWords ==
    { <<"geu", "ri", "go">>, <<"geu", "rae", "seo">>, <<"ha", "ji", "man">>,
      <<"geu", "reon", "de">>, <<"geu", "rae", "do">>, <<"ttae", "mun", "e">>,
      <<"i", "geo", "neun">>, <<"jeo", "geo", "neun">> }

\* text[p..p+n-1] are n Hangul characters
HangulSpan(text, p, n) ==
    /\ p + n - 1 <= Len(text)
    /\ \A k \in p..(p + n - 1) : text[k] \in Hangul

\* length of the match of ([가-힣]{2,3})\1 starting at p, 0 when there is none;
\* the greedy {2,3} tries three characters before two
OnomatopoeiaAt(text, p) ==
    IF HangulSpan(text, p, 6) /\ SubSeq(text, p, p + 2) = SubSeq(text, p + 3, p + 5)
    THEN 6
    ELSE IF HangulSpan(text, p, 4) /\ SubSeq(text, p, p + 1) = SubSeq(text, p + 2, p + 3)
    THEN 4
    ELSE 0

\* tokenize_korean lines 350-352: re.finditer, left to right, non-overlapping
RECURSIVE OnomatopoeiaFrom(_, _)
OnomatopoeiaFrom(text, p) ==
    IF p > Len(text) THEN <<>>
    ELSE LET m == OnomatopoeiaAt(text, p)
         IN  IF m > 0
             THEN <<SubSeq(text, p, p + m - 1)>> \o OnomatopoeiaFrom(text, p + m)
             ELSE OnomatopoeiaFrom(text, p + 1)

\* number of Hangul characters starting at p, at most max
RECURSIVE RunLen(_, _, _)
RunLen(text, p, max) ==
    IF max = 0 \/ p > Len(text) \/ text[p] \notin Hangul THEN 0
    ELSE 1 + RunLen(text, p + 1, max - 1)

\* tokenize_korean lines 355-361: greedy [가-힣]{min,max} matches, stop words dropped
RECURSIVE WordsFrom(_, _, _, _)
WordsFrom(text, p, min, max) ==
    IF p > Len(text) THEN <<>>
    ELSE LET n == RunLen(text, p, max)
         IN  IF n >= min
             THEN LET word == SubSeq(text, p, p + n - 1)
                      rest == WordsFrom(text, p + n, min, max)
                  IN  IF word \in StopWords THEN rest ELSE <<word>> \o rest
             ELSE WordsFrom(text, p + 1, min, max)

\* tokenize_korean
tokenize_korean(text, min, max) ==
    OnomatopoeiaFrom(text, 1) \o WordsFrom(text, 1, min, max)

\* " ".join(usp_sentences)
RECURSIVE JoinSentences(_)
JoinSentences(ss) ==
    IF ss = <<>> THEN <<>>
    ELSE IF Len(ss) = 1 THEN ss[1]
    ELSE ss[1] \o <<Space>> \o JoinSentences(Tail(ss))

\* Counter(tokens)[w]
CountOf(tokens, w) == Cardinality({k \in 1..Len(tokens) : tokens[k] = w})

\* the keys of Counter(tokens), in insertion order
RECURSIVE DistinctInOrder(_, _)
DistinctInOrder(tokens, seen) ==
    IF tokens = <<>> THEN <<>>
    ELSE IF Head(tokens) \in seen THEN DistinctInOrder(Tail(tokens), seen)
    ELSE <<Head(tokens)>> \o DistinctInOrder(Tail(tokens), seen \cup {Head(tokens)})

\* Counter.most_common(): by count, descending, ties in insertion order
RECURSIVE MostCommon(_, _)
MostCommon(ws, tokens) ==
    IF ws = <<>> THEN <<>>
    ELSE LET k == CHOOSE j \in 1..Len(ws) :
                    /\ \A h \in 1..Len(ws) : CountOf(tokens, ws[h]) <= CountOf(tokens, ws[j])
                    /\ \A h \in 1..(j - 1) : CountOf(tokens, ws[h]) < CountOf(tokens, ws[j])
         IN  <<ws[k]>> \o MostCommon(SubSeq(ws, 1, k - 1) \o SubSeq(ws, k + 1, Len(ws)), tokens)

\* SkipWord that forgets the skip set and filters on the count alone
SkipWord_CountOnly(word, count, skip_words) == count < 2

\* detect_new_candidates lines 328-335: the filter of the ranked words
SkipWord(word, count, skip_words) == word \in skip_words \/ count < 2

\* detect_new_candidates
detect_new_candidates(usp_sentences, existing_keywords, exclusion_words, rejected_words, min_length, max_length) ==
    LET tokens == tokenize_korean(JoinSentences(usp_sentences), min_length, max_length)
        ranked == MostCommon(DistinctInOrder(tokens, {}), tokens)
        skip_words == existing_keywords \cup exclusion_words \cup rejected_words
        kept == SelectSeq(ranked, LAMBDA w : ~SkipWord(w, CountOf(tokens, w), skip_words))
    IN  Take([k \in 1..Len(kept) |-> <<kept[k], CountOf(tokens, kept[k])>>], MAX_CANDIDATES)

----------------------------------------------------------------------------
(* Dictionary: state machine.                                              *)

\* what a path of the dictionary may hold: no file, a file that is not JSON, or
\* a JSON document
NoFile == [kind |-> "missing", data |-> <<>>]
Malformed == [kind |-> "malformed", data |-> <<>>]
JsonFile(d) == [kind |-> "json", data |-> d]

TriggerFiles == {NoFile, Malformed, JsonFile([c \in Categories |-> <<>>])}
ExclusionFiles == {NoFile, Malformed, JsonFile(<<W2, W2>>)}
CandidateFiles == {NoFile, Malformed, JsonFile([candidates |-> <<>>, rejected |-> <<>>])}
WellFormed(files) == {f \in files : f.kind # "malformed"}

\* _load_all lines 41-45: the categories of the trigger document, none without a file
LoadedTaxonomy(f) == IF f.kind = "json" THEN f.data ELSE <<>>
\* _load_all lines 48-52 with get_exclusion_words line 82: set(words)
LoadedExclusion(f) == IF f.kind = "json" THEN SeqToSet(f.data) ELSE {}
\* _load_all lines 55-59: candidates and rejected, both empty without a file
LoadedCandidates(f) ==
    IF f.kind = "json" THEN f.data ELSE [candidates |-> <<>>, rejected |-> <<>>]

\* save_all lines 288-292: json.dump of the in-memory documents
SavedTaxonomy(kw) == JsonFile(kw)
\* save_all that writes the queue and forgets the rejection log
SavedCandidates_QueueOnly(cands, rej) == JsonFile([candidates |-> cands, rejected |-> <<>>])
SavedCandidates(cands, rej) == JsonFile([candidates |-> cands, rejected |-> rej])

\* the taxonomy documents a dictionary may be constructed from (_load_all): a
\* missing trigger file gives no category, a missing candidate file the empty
\* queue; the exclusion list is given or empty
InitialTaxonomies == {LoadedTaxonomy(f) : f \in WellFormed(TriggerFiles)}
InitialExclusions == {LoadedExclusion(f) : f \in WellFormed(ExclusionFiles)}

\* the dictionary's administrative flow; no collection is running
CollectorIdle ==
    /\ pc = "idle"
    /\ max_reviews = 0
    /\ total_reviews = 0
    /\ target_count = 0
    /\ collected_reviews = <<>>
    /\ previous_keys = {}
    /\ no_new_count = 0
    /\ no_scroll_count = 0
    /\ current_scroll = 0
    /\ new_scroll = 0
    /\ i = 0
    /\ new_count = 0
    /\ current_reviews = <<>>
    /\ page_unchanged = FALSE
    /\ loop_exit = "none"
    /\ result = NoResult
    /\ goto_calls = 0
    /\ selector_calls = 0
    /\ selector_timeouts = 0

\* no batch call has been made
NoAnalysis == [op |-> "none", input |-> <<>>, out |-> <<>>]

NoCall == [op |-> "none", word |-> <<>>, category |-> "", sentences |-> <<>>,
           ret |-> FALSE]

DictInit ==
    /\ trigger_file \in WellFormed(TriggerFiles)
    /\ exclusion_file \in WellFormed(ExclusionFiles)
    /\ candidate_file = NoFile
    /\ dict_state = "loaded"
    /\ keywords = LoadedTaxonomy(trigger_file)
    /\ exclusion = LoadedExclusion(exclusion_file)
    /\ candidates = LoadedCandidates(candidate_file).candidates
    /\ rejected = LoadedCandidates(candidate_file).rejected
    /\ last = NoCall
    /\ ever_rejected = {}
    /\ analysis = NoAnalysis
    /\ CollectorIdle

\* the state a run of the collector leaves the dictionary in
DictIdle ==
    /\ keywords = <<>>
    /\ exclusion = {}
    /\ candidates = <<>>
    /\ rejected = <<>>
    /\ last = NoCall
    /\ ever_rejected = {}
    /\ trigger_file = NoFile
    /\ exclusion_file = NoFile
    /\ candidate_file = NoFile
    /\ dict_state = "unloaded"
    /\ analysis = NoAnalysis

\* every call below is made on a constructed dictionary (dict_state = "loaded")

\* add_candidate, lines 186-207
add_candidate(word, category, example_sentences) ==
    /\ IF CandidateExists(keywords, rejected, candidates, word)
       THEN /\ candidates' = candidates
            /\ last' = [op |-> "add_candidate", word |-> word, category |-> category,
                        sentences |-> <<>>, ret |-> FALSE]
       ELSE /\ candidates' = Append(candidates,
                                [word |-> word, suggested_category |-> category,
                                 example_sentences |-> Take(example_sentences, MAX_EXAMPLES),
                                 status |-> "pending"])
            /\ last' = [op |-> "add_candidate", word |-> word, category |-> category,
                        sentences |-> <<>>, ret |-> TRUE]
    /\ UNCHANGED <<keywords, exclusion, rejected, ever_rejected>>

\* approve_candidate, lines 209-234
approve_candidate(word, category) ==
    LET k == PendingIndex(candidates, word)
    IN  /\ IF k = 0 \/ category \notin DOMAIN keywords
           THEN /\ UNCHANGED <<keywords, candidates>>
                /\ last' = [op |-> "approve_candidate", word |-> word,
                            category |-> category, sentences |-> <<>>,
                            ret |-> FALSE]
           ELSE /\ keywords' = [keywords EXCEPT
                                  ![category] = AppendIfAbsent(keywords[category], word)]
                /\ candidates' = [candidates EXCEPT ![k].status = "approved"]
                /\ last' = [op |-> "approve_candidate", word |-> word,
                            category |-> category, sentences |-> <<>>,
                            ret |-> TRUE]
        /\ UNCHANGED <<exclusion, rejected, ever_rejected>>

\* reject_candidate that deletes the candidate from the queue instead of marking
\* it and logging the rejection
reject_candidate_Deletes(word, reason) ==
    LET k == PendingIndex(candidates, word)
    IN  /\ IF k = 0
           THEN /\ UNCHANGED <<candidates, ever_rejected>>
                /\ last' = [op |-> "reject_candidate", word |-> word, category |-> "",
                            sentences |-> <<>>, ret |-> FALSE]
           ELSE /\ candidates' = SubSeq(candidates, 1, k - 1)
                                     \o SubSeq(candidates, k + 1, Len(candidates))
                /\ ever_rejected' = ever_rejected \cup {word}
                /\ last' = [op |-> "reject_candidate", word |-> word, category |-> "",
                            sentences |-> <<>>, ret |-> TRUE]
        /\ UNCHANGED <<keywords, exclusion, rejected>>

\* reject_candidate, lines 236-258
reject_candidate(word, reason) ==
    LET k == PendingIndex(candidates, word)
    IN  /\ IF k = 0
           THEN /\ UNCHANGED <<candidates, rejected, ever_rejected>>
                /\ last' = [op |-> "reject_candidate", word |-> word, category |-> "",
                            sentences |-> <<>>, ret |-> FALSE]
           ELSE /\ candidates' = [candidates EXCEPT ![k].status = "rejected"]
                /\ rejected' = Append(rejected, [word |-> word, reason |-> reason])
                /\ ever_rejected' = ever_rejected \cup {word}
                /\ last' = [op |-> "reject_candidate", word |-> word, category |-> "",
                            sentences |-> <<>>, ret |-> TRUE]
        /\ UNCHANGED <<keywords, exclusion>>

\* add_keyword, lines 260-270
add_keyword(word, category) ==
    /\ IF category \in DOMAIN keywords /\ ~InSeq(word, keywords[category])
       THEN /\ keywords' = [keywords EXCEPT ![category] = Append(keywords[category], word)]
            /\ last' = [op |-> "add_keyword", word |-> word, category |-> category,
                        sentences |-> <<>>, ret |-> TRUE]
       ELSE /\ keywords' = keywords
            /\ last' = [op |-> "add_keyword", word |-> word, category |-> category,
                        sentences |-> <<>>, ret |-> FALSE]
    /\ UNCHANGED <<exclusion, candidates, rejected, ever_rejected>>

\* remove_keyword, lines 272-279
remove_keyword(word) ==
    /\ keywords' = RemoveFromFirst(keywords, CategoriesOf(keywords), word)
    /\ last' = [op |-> "remove_keyword", word |-> word, category |-> "",
                sentences |-> <<>>, ret |-> (word \in AllTriggerKeywords(keywords))]
    /\ UNCHANGED <<exclusion, candidates, rejected, ever_rejected>>

\* a discovery run: detect_new_candidates called with the dictionary's current
\* trigger keywords, exclusion words and rejected words
Discover(usp_sentences) ==
    /\ last' = [op |-> "detect_new_candidates", word |-> <<>>, category |-> "",
                sentences |-> usp_sentences,
                ret |-> detect_new_candidates(usp_sentences,
                                              AllTriggerKeywords(keywords), exclusion,
                                              RejectedWords(rejected),
                                              MIN_LENGTH, MAX_LENGTH)]
    /\ UNCHANGED <<keywords, exclusion, candidates, rejected, ever_rejected>>

AddCandidate ==
    /\ dict_state = "loaded"
    /\ \E w \in Words, c \in SuggestedCategories, ex \in ExampleChoices :
          add_candidate(w, c, ex)
    /\ UNCHANGED <<collectorVars, fileVars, analysis>>

ApproveCandidate ==
    /\ dict_state = "loaded"
    /\ \E w \in Words, c \in CategoryInputs : approve_candidate(w, c)
    /\ UNCHANGED <<collectorVars, fileVars, analysis>>

RejectCandidate ==
    /\ dict_state = "loaded"
    /\ \E w \in Words, r \in Reasons : reject_candidate(w, r)
    /\ UNCHANGED <<collectorVars, fileVars, analysis>>

AddKeyword ==
    /\ dict_state = "loaded"
    /\ \E w \in Words, c \in CategoryInputs : add_keyword(w, c)
    /\ UNCHANGED <<collectorVars, fileVars, analysis>>

RemoveKeyword ==
    /\ dict_state = "loaded"
    /\ \E w \in Words : remove_keyword(w)
    /\ UNCHANGED <<collectorVars, fileVars, analysis>>

DiscoverCandidates ==
    /\ dict_state = "loaded"
    /\ \E b \in Batches : Discover(b)
    /\ UNCHANGED <<collectorVars, fileVars, analysis>>

DictNext ==
    \/ AddCandidate
    \/ ApproveCandidate
    \/ RejectCandidate
    \/ AddKeyword
    \/ RemoveKeyword
    \/ DiscoverCandidates

----------------------------------------------------------------------------
(* Dictionary and its files: construction, the administrative calls,      *)
(* save_all, and construction of a fresh dictionary over the same paths.  *)

Call(op, ret) == [op |-> op, word |-> <<>>, category |-> "", sentences |-> <<>>, ret |-> ret]

\* __init__ lines 27-36 with _load_all lines 38-59: json.load is not guarded,
\* so a file that is not JSON ends the construction with the decoder's error
LoadAll ==
    /\ dict_state \in {"unloaded", "loaded"}
    /\ IF Malformed \in {trigger_file, exclusion_file, candidate_file}
       THEN /\ dict_state' = "load_failed"
            /\ keywords' = <<>>
            /\ exclusion' = {}
            /\ candidates' = <<>>
            /\ rejected' = <<>>
            /\ last' = Call("load", FALSE)
       ELSE /\ dict_state' = "loaded"
            /\ keywords' = LoadedTaxonomy(trigger_file)
            /\ exclusion' = LoadedExclusion(exclusion_file)
            /\ candidates' = LoadedCandidates(candidate_file).candidates
            /\ rejected' = LoadedCandidates(candidate_file).rejected
            /\ last' = Call("load", TRUE)
    /\ ever_rejected' = {}
    /\ UNCHANGED <<trigger_file, exclusion_file, candidate_file, collectorVars, analysis>>

\* save_all lines 281-292: the trigger and the candidate document are written,
\* the exclusion document is not
SaveAll ==
    /\ dict_state = "loaded"
    /\ trigger_file' = SavedTaxonomy(keywords)
    /\ candidate_file' = SavedCandidates(candidates, rejected)
    /\ last' = Call("save_all", TRUE)
    /\ UNCHANGED <<keywords, exclusion, candidates, rejected, ever_rejected,
                   exclusion_file, dict_state, collectorVars, analysis>>

PersistInit ==
    /\ trigger_file \in TriggerFiles
    /\ exclusion_file \in ExclusionFiles
    /\ candidate_file \in CandidateFiles
    /\ dict_state = "unloaded"
    /\ keywords = <<>>
    /\ exclusion = {}
    /\ candidates = <<>>
    /\ rejected = <<>>
    /\ last = NoCall
    /\ ever_rejected = {}
    /\ analysis = NoAnalysis
    /\ CollectorIdle

\* the administrative calls of the persistence flow, on one word
PersistWord == W1

PersistAddCandidate ==
    /\ dict_state = "loaded"
    /\ \E c \in SuggestedCategories, ex \in ExampleChoices :
          add_candidate(PersistWord, c, ex)
    /\ UNCHANGED <<collectorVars, fileVars, analysis>>

PersistApproveCandidate ==
    /\ dict_state = "loaded"
    /\ \E c \in CategoryInputs : approve_candidate(PersistWord, c)
    /\ UNCHANGED <<collectorVars, fileVars, analysis>>

PersistRejectCandidate ==
    /\ dict_state = "loaded"
    /\ \E r \in Reasons : reject_candidate(PersistWord, r)
    /\ UNCHANGED <<collectorVars, fileVars, analysis>>

PersistAddKeyword ==
    /\ dict_state = "loaded"
    /\ \E c \in CategoryInputs : add_keyword(PersistWord, c)
    /\ UNCHANGED <<collectorVars, fileVars, analysis>>

PersistRemoveKeyword ==
    /\ dict_state = "loaded"
    /\ remove_keyword(PersistWord)
    /\ UNCHANGED <<collectorVars, fileVars, analysis>>

PersistNext ==
    \/ LoadAll
    \/ SaveAll
    \/ PersistAddCandidate
    \/ PersistApproveCandidate
    \/ PersistRejectCandidate
    \/ PersistAddKeyword
    \/ PersistRemoveKeyword

SpecPersist == PersistInit /\ [][PersistNext]_vars

----------------------------------------------------------------------------
(* Collector: state machine.                                               *)

CollectorInit ==
    /\ pc = "goto"
    /\ max_reviews \in MaxReviewChoices
    /\ total_reviews = 0
    /\ target_count = 0
    /\ collected_reviews = <<>>
    /\ previous_keys = {}
    /\ no_new_count = 0
    /\ no_scroll_count = 0
    /\ current_scroll = 0
    /\ new_scroll = 0
    /\ i = 0
    /\ new_count = 0
    /\ current_reviews = <<>>
    /\ page_unchanged = FALSE
    /\ loop_exit = "none"
    /\ result = NoResult
    /\ goto_calls = 0
    /\ selector_calls = 0
    /\ selector_timeouts = 0
    /\ DictIdle

\* crawl_reviews line 109: page.goto succeeds
GotoOk ==
    /\ pc = "goto"
    /\ UNCHANGED <<dictVars, fileVars, analysis>>
    /\ UNCHANGED <<current_scroll, new_scroll>>
    /\ goto_calls' = goto_calls + 1
    /\ pc' = "wait_selector"
    /\ UNCHANGED <<max_reviews, total_reviews, target_count, collected_reviews,
                   previous_keys, no_new_count, no_scroll_count, i, new_count,
                   current_reviews, page_unchanged, loop_exit, result,
                   selector_calls, selector_timeouts>>

\* crawl_reviews line 109: page.goto times out; nothing catches it in crawl_reviews,
\* and run_review_crawler_sync (463-470) only closes the browser and re-raises
GotoTimeout ==
    /\ pc = "goto"
    /\ UNCHANGED <<dictVars, fileVars, analysis>>
    /\ UNCHANGED <<current_scroll, new_scroll>>
    /\ goto_calls' = goto_calls + 1
    /\ pc' = "raised_goto"
    /\ UNCHANGED <<max_reviews, total_reviews, target_count, collected_reviews,
                   previous_keys, no_new_count, no_scroll_count, i, new_count,
                   current_reviews, page_unchanged, loop_exit, result,
                   selector_calls, selector_timeouts>>

\* crawl_reviews lines 113-114: wait_for_selector finds the title
WaitSelectorOk ==
    /\ pc = "wait_selector"
    /\ UNCHANGED <<dictVars, fileVars, analysis>>
    /\ UNCHANGED <<current_scroll, new_scroll>>
    /\ selector_calls' = selector_calls + 1
    /\ pc' = "product_info"
    /\ UNCHANGED <<max_reviews, total_reviews, target_count, collected_reviews,
                   previous_keys, no_new_count, no_scroll_count, i, new_count,
                   current_reviews, page_unchanged, loop_exit, result,
                   goto_calls, selector_timeouts>>

\* crawl_reviews lines 113-116: wait_for_selector times out; the bare except
\* swallows it and only sleeps (wait_for_timeout(5000)), then execution goes on
WaitSelectorTimeout ==
    /\ pc = "wait_selector"
    /\ UNCHANGED <<dictVars, fileVars, analysis>>
    /\ UNCHANGED <<current_scroll, new_scroll>>
    /\ selector_calls' = selector_calls + 1
    /\ selector_timeouts' = selector_timeouts + 1
    /\ pc' = "product_info"
    /\ UNCHANGED <<max_reviews, total_reviews, target_count, collected_reviews,
                   previous_keys, no_new_count, no_scroll_count, i, new_count,
                   current_reviews, page_unchanged, loop_exit, result,
                   goto_calls>>

\* crawl_reviews lines 119-129: _extract_product_info (never raises, total_reviews
\* is 0 when the count cannot be read), target_count, _navigate_to_review_section
\* (swallows its errors)
EnterReviewSection ==
    /\ pc = "product_info"
    /\ UNCHANGED <<dictVars, fileVars, analysis>>
    /\ UNCHANGED <<current_scroll, new_scroll>>
    /\ \E total \in TotalReviewChoices :
          /\ total_reviews' = total
          /\ target_count' = TargetCount(max_reviews, total)
    /\ pc' = "extract"
    /\ UNCHANGED <<max_reviews, collected_reviews, previous_keys, no_new_count,
                   no_scroll_count, i, new_count, current_reviews, page_unchanged,
                   loop_exit, result, goto_calls, selector_calls, selector_timeouts>>

\* lines 212-242: one extraction round up to the two break checks
ExtractRound ==
    /\ pc = "extract"
    /\ UNCHANGED <<dictVars, fileVars, analysis>>
    /\ current_scroll' = 0
    /\ new_scroll' = 0
    /\ \E page \in Pages :
          LET added == NewReviews(page, previous_keys)
              coll == collected_reviews \o added
              nnc == NextNoNewCount(no_new_count, Len(added))
          IN  /\ current_reviews' = page
              /\ page_unchanged' = (i >= 1 /\ page = current_reviews)
              /\ collected_reviews' = coll
              /\ new_count' = Len(added)
              /\ previous_keys' = CurrentKeys(page)
              /\ no_new_count' = nnc
              /\ IF Len(added) = 0 /\ nnc >= MAX_NO_NEW_REVIEWS
                 THEN /\ loop_exit' = "no_new"
                      /\ pc' = "dedup"
                 ELSE IF TargetReached(target_count, Len(coll))
                 THEN /\ loop_exit' = "target"
                      /\ pc' = "dedup"
                 ELSE /\ loop_exit' = loop_exit
                      /\ pc' = "scroll"
    /\ UNCHANGED <<max_reviews, total_reviews, target_count, no_scroll_count, i,
                   result, goto_calls, selector_calls, selector_timeouts>>

\* lines 245-256 and the loop head of line 210: scroll, compare positions
ScrollStep ==
    /\ pc = "scroll"
    /\ UNCHANGED <<dictVars, fileVars, analysis>>
    /\ \E cur \in ScrollPositions, new \in ScrollPositions :
          LET nsc == NextNoScrollCount(no_scroll_count, cur, new)
          IN  /\ current_scroll' = cur
              /\ new_scroll' = new
              /\ no_scroll_count' = nsc
              /\ IF ScrollStalled(cur, new) /\ nsc >= NO_SCROLL_LIMIT
                 THEN /\ loop_exit' = "no_scroll"
                      /\ pc' = "dedup"
                      /\ i' = i
                 ELSE IF i + 1 >= MAX_SCROLL_ITERATIONS
                 THEN /\ loop_exit' = "exhausted"
                      /\ pc' = "dedup"
                      /\ i' = i + 1
                 ELSE /\ loop_exit' = loop_exit
                      /\ pc' = "extract"
                      /\ i' = i + 1
    /\ UNCHANGED <<max_reviews, total_reviews, target_count, collected_reviews,
                   previous_keys, no_new_count, new_count, current_reviews,
                   page_unchanged, result, goto_calls, selector_calls,
                   selector_timeouts>>

\* lines 245-248: a page.evaluate of the scroll raises (session lost); no handler
\* in _scroll_and_collect_reviews, crawl_reviews or run_review_crawler_sync, so
\* the caller gets the exception and no return value
ScrollRaises ==
    /\ pc = "scroll"
    /\ UNCHANGED <<dictVars, fileVars, analysis>>
    /\ UNCHANGED <<current_scroll, new_scroll>>
    /\ loop_exit' = "raised"
    /\ pc' = "raised_scroll"
    /\ UNCHANGED <<max_reviews, total_reviews, target_count, collected_reviews,
                   previous_keys, no_new_count, no_scroll_count, i, new_count,
                   current_reviews, page_unchanged, result, goto_calls,
                   selector_calls, selector_timeouts>>

\* lines 258-270 and crawl_reviews 137-141: final dedup and the returned dict
FinalDedup ==
    /\ pc = "dedup"
    /\ UNCHANGED <<dictVars, fileVars, analysis>>
    /\ current_scroll' = 0
    /\ new_scroll' = 0
    /\ LET unique_reviews == UniqueByContent(collected_reviews, {})
       IN  result' = [returned |-> TRUE, reviews |-> unique_reviews,
                      count |-> Len(unique_reviews)]
    /\ pc' = "done"
    /\ UNCHANGED <<max_reviews, total_reviews, target_count, collected_reviews,
                   previous_keys, no_new_count, no_scroll_count, i, new_count,
                   current_reviews, page_unchanged, loop_exit, goto_calls,
                   selector_calls, selector_timeouts>>

CollectorNext ==
    \/ GotoOk
    \/ GotoTimeout
    \/ WaitSelectorOk
    \/ WaitSelectorTimeout
    \/ EnterReviewSection
    \/ ExtractRound
    \/ ScrollStep
    \/ ScrollRaises
    \/ FinalDedup

SpecCollector == CollectorInit /\ [][CollectorNext]_vars

----------------------------------------------------------------------------
(* Collector: properties.                                                  *)

\* The for loop has ended without an exception.
LoopEndedNormally == pc \in {"dedup", "done"}

\* C1: when an extraction round returns the same page as the round before it,
\* that round appends nothing to collected_reviews.
C1_UnchangedPageAddsNothing ==
    [][(pc = "extract" /\ i >= 1 /\ current_reviews' = current_reviews)
          => collected_reviews' = collected_reviews]_vars

\* a second round has just read the same non-empty page as the first and added nothing
C1_Witness ==
    /\ pc = "scroll"
    /\ i >= 1
    /\ current_reviews # <<>>
    /\ page_unchanged
    /\ new_count = 0
    /\ collected_reviews # <<>>

\* C2: the list _scroll_and_collect_reviews returns holds no two reviews with
\* equal full content.
C2_ReturnedContentsDistinct ==
    result.returned =>
        \A a, b \in 1..Len(result.reviews) :
            a # b => result.reviews[a].content # result.reviews[b].content

\* the accumulated list held content duplicates and the final pass removed them
C2_Witness ==
    /\ pc = "done"
    /\ Len(result.reviews) = 2
    /\ Len(collected_reviews) > Len(result.reviews)

\* C3: when a scroll or scroll-position read raises after reviews were
\* accumulated, the caller still receives the accumulated reviews.
C3_PartialResultOnFailure ==
    (pc = "raised_scroll" /\ collected_reviews # <<>>) =>
        /\ result.returned
        /\ \A k \in 1..Len(collected_reviews) :
              \E r \in 1..Len(result.reviews) :
                  result.reviews[r].content = collected_reviews[k].content

\* C4: a navigation timeout propagates only after page.goto was attempted twice,
\* and a selector-wait timeout is followed by a second wait_for_selector.
C4_TimeoutRetriedOnce ==
    /\ pc = "raised_goto" => goto_calls = 2
    /\ (selector_timeouts > 0 /\ pc # "wait_selector") => selector_calls = 2

\* C5 as stated: with max_reviews = 0 the loop never ends at the target-count
\* break of line 242.
C5_ZeroNeverStopsOnCount == max_reviews = 0 => loop_exit # "target"

\* C5 amended: with max_reviews = 0 the declared total is the target; the loop
\* ends at the count break exactly when the declared total is > 0 and the
\* accumulated list has reached it, and never when the declared total is 0.
C5_ZeroUsesDeclaredTotal ==
    max_reviews = 0 =>
        /\ loop_exit = "target" =>
              (total_reviews > 0 /\ Len(collected_reviews) >= total_reviews)
        /\ (pc = "scroll" /\ total_reviews > 0) =>
              Len(collected_reviews) < total_reviews

\* unbounded request, declared total 2, loop ended on the count
C5_Witness ==
    /\ max_reviews = 0
    /\ total_reviews > 0
    /\ loop_exit = "target"
    /\ pc = "done"

\* C6 as stated: every normal end of the loop has one of three causes, a stall
\* counter at its threshold or a target count > 0 reached.
C6_ThreeExitCauses ==
    LoopEndedNormally =>
        \/ no_new_count >= MAX_NO_NEW_REVIEWS
        \/ no_scroll_count >= NO_SCROLL_LIMIT
        \/ (target_count > 0 /\ Len(collected_reviews) >= target_count)

\* C6 amended: every end of the loop other than an exception has one of four
\* causes, the three above or the for loop running out of iterations.
C6_FourExitCauses ==
    /\ LoopEndedNormally =>
          \/ no_new_count >= MAX_NO_NEW_REVIEWS
          \/ no_scroll_count >= NO_SCROLL_LIMIT
          \/ (target_count > 0 /\ Len(collected_reviews) >= target_count)
          \/ i >= MAX_SCROLL_ITERATIONS
    /\ loop_exit = "no_new" => no_new_count >= MAX_NO_NEW_REVIEWS
    /\ loop_exit = "no_scroll" => no_scroll_count >= NO_SCROLL_LIMIT
    /\ loop_exit = "target" =>
          (target_count > 0 /\ Len(collected_reviews) >= target_count)
    /\ loop_exit = "exhausted" => i >= MAX_SCROLL_ITERATIONS

\* the loop ran out of iterations with neither stall counter at its threshold
\* and the target not reached
C6_Witness ==
    /\ pc = "done"
    /\ loop_exit = "exhausted"
    /\ no_new_count < MAX_NO_NEW_REVIEWS
    /\ no_scroll_count < NO_SCROLL_LIMIT
    /\ ~(target_count > 0 /\ Len(collected_reviews) >= target_count)

\* C22: the no-new-content counter counts the latest consecutive rounds without
\* a new review: a round that appends nothing raises it by one, a round that
\* appends a review sets it to 0, nothing else changes it, and the round in
\* which it reaches MAX_NO_NEW_REVIEWS ends the loop before any further scroll.
C22_NoNewCounterTracksStall ==
    [][/\ pc = "extract" =>
             LET yielded == Len(collected_reviews') - Len(collected_reviews)
             IN  /\ yielded = 0 => no_new_count' = no_new_count + 1
                 /\ yielded > 0 => no_new_count' = 0
                 /\ no_new_count' >= MAX_NO_NEW_REVIEWS =>
                        (pc' = "dedup" /\ loop_exit' = "no_new")
       /\ pc # "extract" => no_new_count' = no_new_count
       /\ pc' = "scroll" => no_new_count' < MAX_NO_NEW_REVIEWS]_vars

\* the first round found nothing, the second round found a review and set the
\* counter back to 0
C22_Witness ==
    /\ pc = "scroll"
    /\ i = 1
    /\ Len(collected_reviews) = 1
    /\ new_count = 1
    /\ no_new_count = 0

\* C23: the no-scroll counter rises by one in every iteration whose scroll
\* changed window.scrollY by less than 10, is set to 0 by an iteration whose
\* scroll changed it by 10 or more, is changed by nothing else, and ends the
\* loop exactly when it reaches NO_SCROLL_LIMIT, whatever the no-new-content
\* counter holds (which a scroll leaves as it is).
C23_NoScrollCounterTracksStall ==
    [][/\ (pc = "scroll" /\ pc' # "raised_scroll") =>
             LET moved_by == Abs(new_scroll' - current_scroll')
             IN  /\ moved_by < SCROLL_TOLERANCE => no_scroll_count' = no_scroll_count + 1
                 /\ moved_by >= SCROLL_TOLERANCE => no_scroll_count' = 0
                 /\ (no_scroll_count' >= NO_SCROLL_LIMIT)
                        <=> (pc' = "dedup" /\ loop_exit' = "no_scroll")
                 /\ no_new_count' = no_new_count
       /\ (pc # "scroll" \/ pc' = "raised_scroll") => no_scroll_count' = no_scroll_count]_vars

\* the loop ended on the no-scroll counter after a scroll that moved the page by
\* a few pixels, while the latest round had found a new review
C23_Witness ==
    /\ pc = "dedup"
    /\ loop_exit = "no_scroll"
    /\ no_scroll_count = NO_SCROLL_LIMIT
    /\ current_scroll # new_scroll
    /\ no_new_count = 0
    /\ new_count > 0

\* C30: when the loop ended because a target count > 0 was reached, the list
\* _scroll_and_collect_reviews returns holds at least target_count reviews.
C30_TargetExitReturnsTarget ==
    (result.returned /\ loop_exit = "target") => Len(result.reviews) >= target_count

----------------------------------------------------------------------------
(* Dictionary: specification and properties.                               *)

SpecDict == DictInit /\ [][DictNext]_vars

\* C7: once reject_candidate(w) has returned True, no later add_candidate(w, ...)
\* returns True, whatever calls came in between.
C7_RejectedNeverReadded ==
    (last.op = "add_candidate" /\ last.ret = TRUE) => last.word \notin ever_rejected

\* add_candidate has just refused a word rejected earlier that is no trigger keyword
C7_Witness ==
    /\ last.op = "add_candidate"
    /\ last.ret = FALSE
    /\ last.word \in ever_rejected
    /\ last.word \notin AllTriggerKeywords(keywords)

\* C8: right after approve_candidate(w, c) has returned True, find_trigger_words
\* reports w for every text that contains w.
C8_ApprovedWordIsFound ==
    (last.op = "approve_candidate" /\ last.ret = TRUE) =>
        \A text \in Texts :
            Contains(text, last.word) =>
                /\ find_trigger_words(keywords, text).found
                /\ InSeq(last.word, find_trigger_words(keywords, text).words)

\* a word was approved into the second category while a text containing it also
\* matches a keyword of the first
C8_Witness ==
    /\ last.op = "approve_candidate"
    /\ last.ret = TRUE
    /\ \E text \in Texts :
          /\ Contains(text, last.word)
          /\ find_trigger_words(keywords, text).category # last.category
          /\ Len(find_trigger_words(keywords, text).words) >= 2

\* C9: add_candidate(w, ...) returns False and leaves the candidate list as it
\* was whenever w is already a trigger keyword, an exclusion word or a
\* candidate of any status.
C9_KnownWordNotAdded ==
    [][(/\ last'.op = "add_candidate"
        /\ \/ last'.word \in AllTriggerKeywords(keywords)
           \/ last'.word \in exclusion
           \/ \E k \in 1..Len(candidates) : candidates[k].word = last'.word)
          => (last'.ret = FALSE /\ candidates' = candidates)]_vars

\* C10: a discovery run called with the dictionary's current trigger keywords,
\* exclusion words and rejected words returns none of them.
C10_DiscoveryNeverResurfaces ==
    last.op = "detect_new_candidates" =>
        \A k \in 1..Len(last.ret) :
            last.ret[k][1] \notin
                (AllTriggerKeywords(keywords) \cup exclusion \cup RejectedWords(rejected))

\* a discovery run in which a word rejected earlier occurred at least twice
C10_Witness ==
    /\ last.op = "detect_new_candidates"
    /\ \E w \in ever_rejected :
          CountOf(tokenize_korean(JoinSentences(last.sentences), MIN_LENGTH, MAX_LENGTH), w) >= 2

\* C11: approve_candidate(w, c) returns True only for a pending candidate w and
\* an existing category c; then w is exactly once in c's keyword list and the
\* candidate is approved. When c does not exist it returns False and the
\* taxonomy and the candidate queue stay as they were.
C11_ApproveContract ==
    [][last'.op = "approve_candidate" =>
          /\ last'.ret = TRUE =>
                /\ PendingIndex(candidates, last'.word) # 0
                /\ last'.category \in DOMAIN keywords
                /\ CountOf(keywords'[last'.category], last'.word) = 1
                /\ candidates'[PendingIndex(candidates, last'.word)].status = "approved"
          /\ last'.category \notin DOMAIN keywords =>
                /\ last'.ret = FALSE
                /\ keywords' = keywords
                /\ candidates' = candidates]_vars

\* a candidate was approved into a category that listed the word already
\* (add_keyword came first), and the list still holds it once
C11_Witness ==
    /\ last.op = "approve_candidate"
    /\ last.ret = TRUE
    /\ \E k \in 1..Len(candidates) :
          /\ candidates[k].word = last.word
          /\ candidates[k].status = "approved"
    /\ Len(keywords[last.category]) = 2
    /\ keywords[last.category][1] = last.word

----------------------------------------------------------------------------
(* Dictionary files: properties.                                           *)

\* C28: through every call, a candidate record keeps its word and its place,
\* its status changes only from pending to approved or from pending to
\* rejected, approve_candidate and reject_candidate return False and change
\* nothing for a word without a pending record, and no two records of the
\* queue carry the same word.
C28_StatusOnlyLeavesPending ==
    [][/\ Len(candidates') >= Len(candidates)
       /\ \A k \in 1..Len(candidates) :
             /\ candidates'[k].word = candidates[k].word
             /\ candidates'[k].status # candidates[k].status =>
                    /\ candidates[k].status = "pending"
                    /\ candidates'[k].status \in {"approved", "rejected"}
       /\ (/\ last'.op \in {"approve_candidate", "reject_candidate"}
           /\ ~\E k \in 1..Len(candidates) :
                  candidates[k].word = last'.word /\ candidates[k].status = "pending")
             => /\ last'.ret = FALSE
                /\ UNCHANGED <<keywords, exclusion, candidates, rejected>>
       /\ \A a, b \in 1..Len(candidates') :
             a # b => candidates'[a].word # candidates'[b].word]_vars

\* one word was approved and another rejected, the approved word has been
\* removed from the taxonomy again, and a new approve_candidate for the
\* rejected word has just been refused
C28_Witness ==
    /\ \E a, b \in 1..Len(candidates) :
          /\ candidates[a].status = "approved"
          /\ candidates[a].word \notin AllTriggerKeywords(keywords)
          /\ candidates[b].status = "rejected"
          /\ last.word = candidates[b].word
    /\ last.op = "approve_candidate"
    /\ last.category \in DOMAIN keywords
    /\ last.ret = FALSE

\* C29: after remove_keyword(w) has returned True, w is no trigger keyword:
\* get_all_trigger_keywords does not hold it and find_trigger_words reports it
\* for no text.
C29_RemovedWordIsGone ==
    (last.op = "remove_keyword" /\ last.ret) =>
        /\ last.word \notin AllTriggerKeywords(keywords)
        /\ \A t \in Texts : ~InSeq(last.word, find_trigger_words(keywords, t).words)

\* in how many places of the text the word stands
Occurrences(text, word) ==
    Cardinality({k \in 1..(Len(text) - Len(word) + 1) :
                    SubSeq(text, k, k + Len(word) - 1) = word})

\* C24: every word detect_new_candidates returns stands at least twice in the
\* sentences it was given, the result has at most 50 entries, and the counts of
\* the entries never increase along the list.
C24_ReturnedWordsOccurTwice ==
    last.op = "detect_new_candidates" =>
        /\ \A k \in 1..Len(last.ret) :
              Occurrences(JoinSentences(last.sentences), last.ret[k][1]) >= 2
        /\ Len(last.ret) <= MAX_CANDIDATES
        /\ \A k \in 1..(Len(last.ret) - 1) : last.ret[k][2] >= last.ret[k + 1][2]

MutatingCalls == {"add_candidate", "approve_candidate", "reject_candidate",
                  "add_keyword", "remove_keyword"}

\* C12: add_candidate, approve_candidate, reject_candidate, add_keyword and
\* remove_keyword leave the three files as they are; after save_all the trigger
\* and the candidate file hold what is in memory, so that loading them gives the
\* same taxonomy, the same candidate queue and the same rejection log.
C12_OnlySaveAllWrites ==
    [][/\ last'.op \in MutatingCalls =>
             <<trigger_file, exclusion_file, candidate_file>>' =
             <<trigger_file, exclusion_file, candidate_file>>
       /\ last'.op = "save_all" =>
             /\ LoadedTaxonomy(trigger_file') = keywords'
             /\ LoadedCandidates(candidate_file').candidates = candidates'
             /\ LoadedCandidates(candidate_file').rejected = rejected']_vars

\* save_all has written a taxonomy with a keyword, and a queue with a rejected
\* candidate and its rejection record
C12_Witness ==
    /\ last.op = "save_all"
    /\ trigger_file.kind = "json"
    /\ \E c \in DOMAIN trigger_file.data : Len(trigger_file.data[c]) > 0
    /\ candidate_file.kind = "json"
    /\ Len(candidate_file.data.rejected) > 0
    /\ \E k \in 1..Len(candidate_file.data.candidates) :
          candidate_file.data.candidates[k].status = "rejected"

\* C13: constructing a dictionary never fails, whether a file is missing or is
\* not JSON
C13_LoadNeverFails == dict_state # "load_failed"

----------------------------------------------------------------------------
(* Batch analysis: USP sentence extraction (usp_dictionary.py).            *)

\* the characters re.split(r'[.!?\n]+') breaks a text on; "NL" is the line break
SentenceBreaks == {".", "!", "?", "NL"}
\* what str.strip() removes at both ends of a sentence
Whitespace == {Space}

\* extract_usp_candidates line 150
MIN_SENTENCE_LENGTH == 5
\* extract_usp_candidates line 154
SENTENCE_KEY_LENGTH == 30

RECURSIVE LStrip(_)
LStrip(s) == IF s # <<>> /\ Head(s) \in Whitespace THEN LStrip(Tail(s)) ELSE s

RECURSIVE RStrip(_)
RStrip(s) ==
    IF s # <<>> /\ s[Len(s)] \in Whitespace THEN RStrip(SubSeq(s, 1, Len(s) - 1)) ELSE s

\* str.strip()
Strip(s) == RStrip(LStrip(s))

\* the pieces of text between break characters, cur being the piece in progress;
\* a run of breaks leaves empty pieces where re.split leaves none, and
\* _split_into_sentences drops the empty ones either way
RECURSIVE SplitOnBreaks(_, _)
SplitOnBreaks(text, cur) ==
    IF text = <<>> THEN <<cur>>
    ELSE IF Head(text) \in SentenceBreaks
         THEN <<cur>> \o SplitOnBreaks(Tail(text), <<>>)
         ELSE SplitOnBreaks(Tail(text), Append(cur, Head(text)))

\* _split_into_sentences, lines 173-177
_split_into_sentences(text) ==
    LET pieces == SplitOnBreaks(text, <<>>)
        stripped == [k \in 1..Len(pieces) |-> Strip(pieces[k])]
    IN  SelectSeq(stripped, LAMBDA x : x # <<>>)

\* has_only_exclusion_words, lines 113-128
has_only_exclusion_words(kw, excl, text) ==
    IF \E k \in AllTriggerKeywords(kw) : Contains(text, k)
    THEN FALSE
    ELSE \E w \in excl : Contains(text, w)

\* extract_usp_candidates lines 144-146: the sentences of every review, in order
RECURSIVE SentencesOf(_)
SentencesOf(reviews) ==
    IF reviews = <<>> THEN <<>>
    ELSE _split_into_sentences(Head(reviews)) \o SentencesOf(Tail(reviews))

\* the length test without its len(sentence) < 5 half
TooShort_EmptyOnly(sentence) == sentence = <<>>

\* extract_usp_candidates line 150: not sentence or len(sentence) < 5
TooShort(sentence) == sentence = <<>> \/ Len(sentence) < MIN_SENTENCE_LENGTH

\* extract_usp_candidates lines 148-169, over the sentences still to visit
RECURSIVE ExtractFrom(_, _, _, _, _)
ExtractFrom(kw, excl, sentences, seen_sentences, acc) ==
    IF sentences = <<>> THEN acc
    ELSE LET sentence == Strip(Head(sentences))
             key == Take(sentence, SENTENCE_KEY_LENGTH)
             matched == find_trigger_words(kw, sentence)
             keep == /\ ~TooShort(sentence)
                     /\ key \notin seen_sentences
                     /\ ~has_only_exclusion_words(kw, excl, sentence)
                     /\ matched.found
         IN  ExtractFrom(kw, excl, Tail(sentences),
                         IF keep THEN seen_sentences \cup {key} ELSE seen_sentences,
                         IF keep THEN Append(acc, [sentence |-> sentence,
                                                   category |-> matched.category,
                                                   trigger_words |-> matched.words])
                                 ELSE acc)

\* extract_usp_candidates, lines 130-171
extract_usp_candidates(kw, excl, reviews) ==
    ExtractFrom(kw, excl, SentencesOf(reviews), {}, <<>>)

\* sentences of the review texts given to extract_usp_candidates: with and
\* without a trigger word, shorter and longer than five characters, padded
ShortTrigger == W1
FourTrigger == <<"jjon", "deuk", "geu", "ri">>
FiveTrigger == <<"jjon", "deuk", Space, "geu", "ri">>
PaddedTrigger == <<Space, Space, "jjon", "deuk", Space, Space>>
FiveOther == <<"geu", "ri", "go", Space, "go">>
LongTrigger == <<"go", Space, "deuk", "jjon", Space, "go">>
UspSentences == {<<>>, ShortTrigger, FourTrigger, FiveTrigger, PaddedTrigger,
                 FiveOther, LongTrigger}
UspReviews == {a \o <<b>> \o c : a \in UspSentences, b \in {".", "NL", Space},
                                c \in UspSentences}
UspBatches == {<<>>} \cup {<<r>> : r \in UspReviews}
                     \cup {<<r, FiveTrigger \o <<"!">> \o ShortTrigger>> : r \in UspReviews}

\* the taxonomies and exclusion lists the batch calls run against
AnalysisTaxonomies == {[c \in Categories |-> IF c = "tactile" THEN <<W1>> ELSE <<>>],
                       [c \in Categories |-> IF c = "tactile" THEN <<W1>> ELSE <<W2>>]}

\* extract_usp_candidates called on a constructed dictionary
ExtractUspCandidates ==
    /\ dict_state = "loaded"
    /\ analysis.op = "none"
    /\ \E b \in UspBatches :
          analysis' = [op |-> "extract_usp_candidates", input |-> b,
                       out |-> extract_usp_candidates(keywords, exclusion, b)]
    /\ UNCHANGED <<collectorVars, dictVars, fileVars>>

----------------------------------------------------------------------------
(* Batch analysis: competitor mentions (review_analyzer.py).               *)

\* str.lower(), one character: Latin capitals have a lower case, Hangul has none
UpperToLower == ("C" :> "c") @@ ("O" :> "o") @@ ("S" :> "s") @@ ("R" :> "r") @@
                ("X" :> "x") @@ ("N" :> "n") @@ ("I" :> "i") @@ ("A" :> "a")
LowerChar(ch) == IF ch \in DOMAIN UpperToLower THEN UpperToLower[ch] ELSE ch
Lower(str) == [k \in 1..Len(str) |-> LowerChar(str[k])]

\* COMPETITOR_BRANDS lines 314-324, four of its brands: 'cosrx', keul-ri-oh
\* (line 317), dal-ba and me-di-hil
Cosrx == <<"c", "o", "s", "r", "x">>
Clio == <<"keul", "ri", "oh">>
Dalba == <<"dal", "ba">>
Mediheal == <<"me", "di", "hil">>
COMPETITOR_BRANDS == {Cosrx, Clio, Dalba, Mediheal}

\* find_competitor_mentions line 385: most_common(10)
TOP_MENTIONS == 10

\* find_competitor_mentions line 371
CurrentBrandLower(current_brand) ==
    IF current_brand # <<>> THEN Strip(Lower(current_brand)) ELSE <<>>

\* the exclusion test without its second half (lines 380-381)
ExcludedBrand_OneWay(brand, current_brand_lower) ==
    current_brand_lower # <<>> /\ Contains(current_brand_lower, Lower(brand))

\* find_competitor_mentions lines 378-381: the two "continue"s
ExcludedBrand(brand, current_brand_lower) ==
    /\ current_brand_lower # <<>>
    /\ \/ Contains(current_brand_lower, Lower(brand))
       \/ Contains(Lower(brand), current_brand_lower)

\* find_competitor_mentions lines 373-383: in how many reviews the brand is counted
MentionCount(reviews, brand, current_brand_lower) ==
    IF ExcludedBrand(brand, current_brand_lower) THEN 0
    ELSE Cardinality({k \in 1..Len(reviews) : Contains(Lower(reviews[k]), Lower(brand))})

\* most_common(10), line 385: every counted brand while there are at most ten;
\* beyond ten, ten brands none of which has a smaller count than one left out
MostCommonBrands(mentions) ==
    IF Cardinality(DOMAIN mentions) <= TOP_MENTIONS THEN mentions
    ELSE LET kept == CHOOSE K \in SUBSET DOMAIN mentions :
                        /\ Cardinality(K) = TOP_MENTIONS
                        /\ \A b \in K, o \in DOMAIN mentions \ K : mentions[b] >= mentions[o]
         IN  [b \in kept |-> mentions[b]]

\* find_competitor_mentions, lines 359-385; reviews are given by their content
find_competitor_mentions(reviews, current_brand) ==
    LET cbl == CurrentBrandLower(current_brand)
        counted == {b \in COMPETITOR_BRANDS : MentionCount(reviews, b, cbl) > 0}
    IN  MostCommonBrands([b \in counted |-> MentionCount(reviews, b, cbl)])

\* own brands: none, blank, a catalogue brand in capitals, a part of one, one
\* with a product line after it, one padded with blanks, one outside the catalogue
OwnBrands == {<<>>, <<Space>>, <<"C", "O", "S", "R", "X">>, <<"c", "o", "s">>,
              Clio \o <<Space, "N">>, <<Space>> \o Dalba \o <<Space>>, <<"n">>}
MentionContents == {<<"C", "o", "s", "r", "x">>, Clio \o <<Space>> \o Mediheal,
                    Dalba \o <<Space>> \o Cosrx, <<"ba">>}
MentionBatches == {<<>>} \cup {<<a>> : a \in MentionContents}
                         \cup {<<a, b>> : a \in MentionContents, b \in MentionContents}

FindCompetitorMentions ==
    /\ analysis.op = "none"
    /\ \E b \in MentionBatches, own \in OwnBrands :
          analysis' = [op |-> "find_competitor_mentions",
                       input |-> [reviews |-> b, current_brand |-> own],
                       out |-> find_competitor_mentions(b, own)]
    /\ UNCHANGED <<collectorVars, dictVars, fileVars>>

----------------------------------------------------------------------------
(* Batch analysis: sentiment classifier (review_analyzer.py).  A text is   *)
(* a sequence of characters; a Hangul syllable is written by its           *)
(* romanised name, one name per syllable.                                   *)

\* \s and \s* inside a literal of a pattern
WsOne == "\\s"
WsAny == "\\s*"

\* a lexicon entry: keyword and weight (tenths)
Entry(kw, weight) == [kw |-> kw, weight |-> weight]
\* the parts of a regular expression of the module: a group of alternatives
\* (lit1|lit2|...), the same followed by ?, and the gap .{0,n}
Alt(lits) == [t |-> "alt", lits |-> lits, opt |-> FALSE, hi |-> 0]
Opt(lits) == [t |-> "alt", lits |-> lits, opt |-> TRUE, hi |-> 0]
Gap(n) == [t |-> "gap", lits |-> <<>>, opt |-> FALSE, hi |-> n]

\* NEGATION_PATTERNS, lines 13-16; WsOne stands for the \s of the source
NEGATION_PATTERNS ==
    <<<<"eobs">>,
      <<"anh">>,
      <<"an", WsOne>>,
      <<"mos", WsOne>>,
      <<"ah", "ni">>,
      <<"N", "O">>,
      <<"n", "o">>,
      <<"jeon", "hyeo">>,
      <<"byeol", "ro">>,
      <<"geu", "da", "ji">>,
      <<"ttag", "hi">>>>

\* POSITIVE_KEYWORDS, lines 24-47, in the order of the table; weights in tenths
POSITIVE_KEYWORDS ==
    <<Entry(<<"joh", "ah", "yo">>, 10), Entry(<<"joh", "ah">>, 10), Entry(<<"joh", "eum">>, 10),
      Entry(<<"choe", "go">>, 12), Entry(<<"dae", "bag">>, 12), Entry(<<"gus">>, 10),
      Entry(<<"jjang">>, 10), Entry(<<"wan", "jeon">>, 8), Entry(<<"jin", "jja">>, 6),
      Entry(<<"hyo", "gwa">>, 8), Entry(<<"gae", "seon">>, 10), Entry(<<"joh", "ah", "jyeoss">>, 10),
      Entry(<<"na", "ah", "jyeoss">>, 10), Entry(<<"chog", "chog">>, 12), Entry(<<"bo", "seub">>, 10),
      Entry(<<"su", "bun">>, 8), Entry(<<"chog", "chog", "hae">>, 12), Entry(<<"chog", "chog", "ha", "go">>, 12),
      Entry(<<"heub", "su">>, 8), Entry(<<"ppa", "reun", "heub", "su">>, 10), Entry(<<"seu", "myeo">>, 8),
      Entry(<<"heub", "su", "ppa", "reum">>, 10), Entry(<<"sun", "hae", "yo">>, 12), Entry(<<"sun", "ha", "go">>, 12),
      Entry(<<"sun", "ham">>, 12), Entry(<<"mu", "ja", "geug">>, 12), Entry(<<"ga", "seong", "bi">>, 10),
      Entry(<<"gas", "seong", "bi">>, 10), Entry(<<"jeo", "ryeom">>, 8), Entry(<<"hab", "ri", "jeog">>, 8),
      Entry(<<"bal", "rim", "seong">>, 8), Entry(<<"bu", "deu", "reo">>, 10), Entry(<<"san", "tteus">>, 10),
      Entry(<<"ga", "byeo">>, 8), Entry(<<"jjon", "jjon">>, 8), Entry(<<"chog", "chog", "ham">>, 10),
      Entry(<<"hyang", "joh", "ah">>, 10), Entry(<<"hyang", "ih", "joh">>, 10), Entry(<<"eun", "eun">>, 8),
      Entry(<<"jae", "gu", "mae">>, 15), Entry(<<"jae", "gu">>, 12), Entry(<<"tto", "sa">>, 12),
      Entry(<<"chu", "cheon">>, 12), Entry(<<"gang", "chu">>, 15), Entry(<<"in", "saeng", "tem">>, 15),
      Entry(<<"kkul", "tem">>, 12), Entry(<<"man", "jog">>, 10), Entry(<<"deug", "tem">>, 10),
      Entry(<<"hwa", "jang", "jal">>, 10), Entry(<<"mil", "chag">>, 8), Entry(<<"ji", "sog", "ryeog">>, 8),
      Entry(<<"keo", "beo", "ryeog">>, 8)>>

\* NEGATIVE_KEYWORDS, lines 50-68, in the order of the table; weights in tenths
NEGATIVE_KEYWORDS ==
    <<Entry(<<"teu", "reo", "beul">>, 12), Entry(<<"ppyo", "ru", "ji">>, 12), Entry(<<"ol", "ra">>, 6),
      Entry(<<"ppal", "gae">>, 8), Entry(<<"ja", "geug">>, 10), Entry(<<"tta", "ga">>, 10),
      Entry(<<"tta", "kkeum">>, 10), Entry(<<"hwa", "kkeun">>, 8), Entry(<<"ga", "ryeo">>, 8),
      Entry(<<"gan", "ji", "reo">>, 8), Entry(<<"al", "reo", "ji">>, 10), Entry(<<"du", "deu", "reo", "gi">>, 10),
      Entry(<<"kkeun", "jeog">>, 10), Entry(<<"kkeun", "jeog", "geo">>, 10), Entry(<<"mu", "geo">>, 8),
      Entry(<<"dab", "dab">>, 8), Entry(<<"gi", "reum">>, 6), Entry(<<"beon", "deul">>, 8),
      Entry(<<"yu", "bun">>, 6), Entry(<<"mil", "rim">>, 10), Entry(<<"mil", "ryeo">>, 10),
      Entry(<<"deul", "tteum">>, 8), Entry(<<"gag", "jil">>, 6), Entry(<<"mung", "chim">>, 8),
      Entry(<<"byeol", "ro">>, 8), Entry(<<"ae", "mae">>, 6), Entry(<<"mo", "reu", "gess">>, 6),
      Entry(<<"hyo", "gwa", "eobs">>, 10), Entry(<<"gi", "dae", "ih", "ha">>, 10), Entry(<<"sil", "mang">>, 10),
      Entry(<<"ah", "swi">>, 8), Entry(<<"hu", "hoe">>, 10), Entry(<<"hyang", "gang", "hae">>, 8),
      Entry(<<"hyang", "ih", "gang">>, 8), Entry(<<"in", "gong", "hyang">>, 8), Entry(<<"bi", "ssa">>, 8),
      Entry(<<"bi", "ssam">>, 8), Entry(<<"bi", "chu">>, 12), Entry(<<"hwan", "bul">>, 10),
      Entry(<<"gyo", "hwan">>, 6)>>

\* REVERSIBLE_KEYWORDS, lines 71-75
REVERSIBLE_KEYWORDS ==
    {<<"ja", "geug">>, <<"kkeun", "jeog">>, <<"kkeun", "jeog", "geo">>, <<"teu", "reo", "beul">>,
     <<"ppyo", "ru", "ji">>, <<"mil", "rim">>, <<"mil", "ryeo">>, <<"deul", "tteum">>,
     <<"mu", "geo">>, <<"dab", "dab">>, <<"gi", "reum">>, <<"beon", "deul">>,
     <<"gag", "jil">>, <<"mung", "chim">>, <<"tta", "ga">>, <<"ga", "ryeo">>,
     <<"hwa", "kkeun">>, <<"heub", "su", "an">>}

\* CONTEXT_SENSITIVE_KEYWORDS, lines 78-139, in the order of the table; a pattern
\* is the sequence of its groups and gaps, \s* written into the literals it precedes
CONTEXT_SENSITIVE_KEYWORDS ==
    <<[kw |-> <<"naem", "sae">>,
        positive_patterns |->
           <<<<Alt(<<<<"naem", "sae">>>>),
              Gap(10),
              Alt(<<<<"joh">>>>)>>,
             <<Alt(<<<<"joh", "eun">>>>),
              Gap(5),
              Alt(<<<<"naem", "sae">>>>)>>,
             <<Alt(<<<<"naem", "sae">>>>),
              Gap(10),
              Alt(<<<<"gwaen", "chanh">>>>)>>,
             <<Alt(<<<<"naem", "sae">>>>),
              Gap(5),
              Alt(<<<<"eobs">>, <<"an", WsAny, "na">>>>)>>,
             <<Alt(<<<<"naem", "sae">>>>),
              Gap(10),
              Alt(<<<<"eun", "eun">>>>)>>>>,
        negative_patterns |->
           <<<<Alt(<<<<"naem", "sae">>>>),
              Gap(5),
              Alt(<<<<"na", "yo">>, <<"na", "seo">>, <<"sim", "hae">>, <<"ih", "sang">>, <<"byeol", "ro">>, <<"silh">>>>)>>>>,
        default |-> "neutral"],
       [kw |-> <<"hyang">>,
        positive_patterns |->
           <<<<Alt(<<<<"hyang">>>>),
              Gap(10),
              Alt(<<<<"joh">>>>)>>,
             <<Alt(<<<<"joh", "eun">>>>),
              Gap(5),
              Alt(<<<<"hyang">>>>)>>,
             <<Alt(<<<<"hyang">>>>),
              Gap(10),
              Alt(<<<<"eun", "eun">>, <<"bu", "deu">>, <<"sang", "kwae">>, <<"gwaen", "chanh">>, <<"ma", "eum", "eh">>>>)>>,
             <<Alt(<<<<"hyang", "gi">>>>),
              Gap(5),
              Alt(<<<<"joh">>, <<"na">>, <<"rob">>>>)>>>>,
        negative_patterns |->
           <<<<Alt(<<<<"hyang">>>>),
              Gap(5),
              Alt(<<<<"gang", "hae">>, <<"sse">>, <<"byeol", "ro">>, <<"geo", "bu">>, <<"in", "gong">>, <<"silh">>>>)>>>>,
        default |-> "neutral"],
       [kw |-> <<"teu", "reo", "beul">>,
        positive_patterns |->
           <<<<Alt(<<<<"teu", "reo", "beul">>>>),
              Gap(15),
              Alt(<<<<"eobs">>, <<"an", WsAny, "na">>, <<"an", WsAny, "saeng">>, <<"an", WsAny, "ol", "ra">>>>)>>,
             <<Alt(<<<<"teu", "reo", "beul">>>>),
              Gap(5),
              Opt(<<<<"ih">>, <<"ga">>>>),
              Gap(10),
              Alt(<<<<"eobs">>, <<"an">>>>)>>,
             <<Alt(<<<<"iss", "eoss", "neun", "de">>, <<"manh", "ass", "neun", "de">>, <<"nass", "eoss", "neun", "de">>>>),
              Gap(20),
              Alt(<<<<"teu", "reo", "beul">>, <<"ppyo", "ru", "ji">>>>),
              Gap(10),
              Alt(<<<<"eobs">>, <<"an">>>>)>>,
             <<Alt(<<<<"teu", "reo", "beul">>>>),
              Gap(20),
              Alt(<<<<"sa", "ra">>, <<"jul">>, <<"joh", "ah">>, <<"gae", "seon">>, <<"jin", "jeong">>>>)>>,
             <<Alt(<<<<"sseu", "go">>, <<"ba", "reu", "go">>, <<"sa", "yong", "ha", "go">>>>),
              Gap(20),
              Alt(<<<<"teu", "reo", "beul">>>>),
              Gap(10),
              Alt(<<<<"eobs">>, <<"an">>>>)>>>>,
        negative_patterns |->
           <<<<Alt(<<<<"teu", "reo", "beul">>>>),
              Gap(5),
              Alt(<<<<"na">>, <<"saeng", "gi">>, <<"ol", "ra", "wass">>, <<"nass">>>>)>>,
             <<Alt(<<<<"sseu", "go">>, <<"ba", "reu", "go">>, <<"sa", "yong", "ha", "go">>>>),
              Gap(10),
              Alt(<<<<"teu", "reo", "beul">>>>),
              Gap(5),
              Alt(<<<<"na">>, <<"saeng">>>>)>>>>,
        default |-> "negative"],
       [kw |-> <<"ja", "geug">>,
        positive_patterns |->
           <<<<Alt(<<<<"ja", "geug">>>>),
              Gap(15),
              Alt(<<<<"eobs">>, <<"an">>>>)>>,
             <<Alt(<<<<"ja", "geug">>>>),
              Gap(5),
              Opt(<<<<"ih">>, <<"ga">>>>),
              Gap(10),
              Alt(<<<<"eobs">>, <<"an">>>>)>>,
             <<Alt(<<<<"mu">>, <<"jeo">>>>),
              Alt(<<<<"ja", "geug">>>>)>>,
             <<Alt(<<<<"ja", "geug">>>>),
              Gap(10),
              Alt(<<<<"jeog">>, <<"deol">>>>)>>,
             <<Alt(<<<<"ye", "min">>, <<"min", "gam">>>>),
              Gap(15),
              Alt(<<<<"in", "de">>, <<"han", "de">>>>),
              Gap(15),
              Alt(<<<<"ja", "geug">>>>),
              Gap(10),
              Alt(<<<<"eobs">>, <<"an">>, <<"gwaen", "chanh">>>>)>>>>,
        negative_patterns |->
           <<<<Alt(<<<<"ja", "geug">>>>),
              Gap(5),
              Alt(<<<<"iss">>, <<"doe">>, <<"neu", "kkyeo">>, <<"sim">>>>)>>,
             <<Alt(<<<<"ja", "geug">>>>),
              Gap(5),
              Opt(<<<<"ih">>, <<"ga">>>>),
              Gap(5),
              Alt(<<<<"iss">>, <<"doe">>>>)>>>>,
        default |-> "negative"],
       [kw |-> <<"kkeun", "jeog">>,
        positive_patterns |->
           <<<<Alt(<<<<"kkeun", "jeog">>>>),
              Gap(15),
              Alt(<<<<"eobs">>, <<"an">>>>)>>,
             <<Alt(<<<<"kkeun", "jeog">>>>),
              Gap(5),
              Opt(<<<<"im">>, <<"geo", "rim">>>>),
              Gap(10),
              Alt(<<<<"eobs">>, <<"an">>>>)>>,
             <<Alt(<<<<"saeng", "gag", "bo", "da">>, <<"ui", "oe", "ro">>>>),
              Gap(10),
              Alt(<<<<"kkeun", "jeog">>>>),
              Gap(10),
              Alt(<<<<"eobs">>, <<"an">>>>)>>>>,
        negative_patterns |->
           <<<<Alt(<<<<"kkeun", "jeog">>>>),
              Gap(5),
              Alt(<<<<"yeo">>, <<"geo", "ryeo">>, <<"hae">>, <<"ham">>, <<"iss">>>>)>>>>,
        default |-> "negative"]>>

\* SENTENCE_REVERSAL_PATTERNS, lines 142-159, in the order of the list; every one
\* of them carries the sentiment type positive
SENTENCE_REVERSAL_PATTERNS ==
    <<<<Alt(<<<<"pyeong", "so">>, <<"won", "rae">>, <<"jeon", "eh">>, <<"ye", "jeon">>>>),
        Gap(15),
        Alt(<<<<"teu", "reo", "beul">>, <<"ppyo", "ru", "ji">>, <<"ja", "geug">>, <<"gag", "jil">>>>),
        Gap(15),
        Alt(<<<<"iss">>, <<"manh">>, <<"nass">>, <<"saeng">>>>),
        Gap(20),
        Alt(<<<<"ih", "geo">>, <<"ih", WsAny, "je", "pum">>, <<"sa", "yong">>>>),
        Gap(20),
        Alt(<<<<"eobs">>, <<"an">>, <<"sa", "ra">>, <<"jul">>, <<"joh", "ah">>>>)>>,
      <<Alt(<<<<"teu", "reo", "beul">>, <<"ppyo", "ru", "ji">>, <<"ja", "geug">>, <<"kkeun", "jeog">>, <<"gag", "jil">>>>),
        Gap(10),
        Opt(<<<<"ih">>, <<"ga">>>>),
        Alt(<<<<WsAny, "iss", "eoss", "neun", "de">>, <<WsAny, "manh", "ass", "neun", "de">>, <<WsAny, "nass", "eoss", "neun", "de">>, <<WsAny, "saeng", "gyeoss", "eoss", "neun", "de">>, <<WsAny, "sim", "haess", "neun", "de">>>>),
        Gap(20),
        Alt(<<<<"eobs">>, <<"an">>, <<"sa", "ra">>, <<"jul">>, <<"jin", "jeong">>>>)>>,
      <<Alt(<<<<"geog", "jeong">>, <<"yeom", "ryeo">>, <<"bul", "an">>>>),
        Gap(15),
        Alt(<<<<"teu", "reo", "beul">>, <<"ja", "geug">>, <<"kkeun", "jeog">>>>),
        Gap(15),
        Alt(<<<<"eobs">>, <<"an">>, <<"gwaen", "chanh">>>>)>>,
      <<Alt(<<<<"min", "gam">>, <<"ye", "min">>, <<"yag", "han">>>>),
        Gap(10),
        Opt(<<<<"pi", "bu">>, <<"pyeon">>>>),
        Gap(15),
        Alt(<<<<"teu", "reo", "beul">>, <<"ja", "geug">>>>),
        Gap(15),
        Alt(<<<<"eobs">>, <<"an">>, <<"gwaen", "chanh">>>>)>>,
      <<Alt(<<<<"sseu", "go">>, <<"ba", "reu", "go">>, <<"sa", "yong", "ha", "go">>, <<"bal", "ra", "bo", "ni">>, <<"sseo", "bo", "ni">>>>),
        Gap(20),
        Alt(<<<<"teu", "reo", "beul">>, <<"ppyo", "ru", "ji">>, <<"ja", "geug">>, <<"kkeun", "jeog">>>>),
        Gap(15),
        Alt(<<<<"eobs">>, <<"an">>, <<"sa", "ra">>, <<"jul">>>>)>>,
      <<Alt(<<<<"teu", "reo", "beul">>, <<"ppyo", "ru", "ji">>, <<"ja", "geug">>>>),
        Gap(10),
        Opt(<<<<"ih">>, <<"ga">>>>),
        Alt(<<<<WsAny, "pyeong", "so">>>>),
        Gap(10),
        Alt(<<<<"iss">>, <<"manh">>>>),
        Gap(20),
        Alt(<<<<"ih", "geo">>, <<"ih", WsAny, "je", "pum">>, <<"sseu", "go">>>>),
        Gap(20),
        Opt(<<<<"geu", "reon", WsAny, "ge">>, <<"geu", "reon", "geo">>>>),
        Alt(<<<<WsAny, "eobs">>, <<WsAny, "an">>>>)>>,
      <<Alt(<<<<"won", "rae">>, <<"pyeong", "so">>>>),
        Gap(10),
        Alt(<<<<"teu", "reo", "beul">>, <<"ppyo", "ru", "ji">>, <<"ja", "geug">>>>),
        Gap(10),
        Alt(<<<<"jal">>, <<"ja", "ju">>>>),
        Gap(10),
        Alt(<<<<"na">>, <<"saeng", "gi">>, <<"ol", "ra">>>>),
        Gap(15),
        Alt(<<<<"in", "de">>, <<"pyeon", "in", "de">>>>),
        Gap(15),
        Alt(<<<<"eobs">>, <<"an">>>>)>>,
      <<Alt(<<<<"teu", "reo", "beul">>, <<"ppyo", "ru", "ji">>, <<"ja", "geug">>, <<"kkeun", "jeog">>>>),
        Gap(10),
        Alt(<<<<"manh", "eun">>, <<"ja", "ju">>, <<"swi", "un">>>>),
        Gap(10),
        Alt(<<<<"pyeon">>, <<"ta", "ib">>>>),
        Gap(15),
        Alt(<<<<"in", "de">>, <<"ih", "ji", "man">>>>),
        Gap(15),
        Alt(<<<<"gwaen", "chanh">>, <<"joh">>, <<"eobs">>, <<"an">>>>)>>>>

\* analyze_sentiment_with_context line 228: the keywords a reversal can resolve
RESOLVABLE_KEYWORDS == <<<<"teu", "reo", "beul">>, <<"ppyo", "ru", "ji">>, <<"ja", "geug">>, <<"kkeun", "jeog">>, <<"gag", "jil">>>>

\* has_negation_before line 162: window
NEGATION_WINDOW == 8
\* analyze_sentiment_with_context line 225: matched_text[:20]
EVIDENCE_PREFIX == 20
\* line 226: score += 2.0, in tenths
REVERSAL_SCORE == 20
\* lines 239 and 242: score += 1.0, score -= 1.0, in tenths
CONTEXT_SCORE == 10
\* line 279: score < -0.5, in tenths
NEGATIVE_BELOW == -5

RECURSIVE SkipSpaces(_, _)
SkipSpaces(text, pos) ==
    IF pos <= Len(text) /\ text[pos] \in Whitespace THEN SkipSpaces(text, pos + 1) ELSE pos

\* where a literal that starts at pos ends (the position after it), 0 if the
\* text does not carry it there
RECURSIVE LitEnd(_, _, _)
LitEnd(text, lit, pos) ==
    IF lit = <<>> THEN pos
    ELSE IF Head(lit) = WsAny THEN LitEnd(text, Tail(lit), SkipSpaces(text, pos))
    ELSE IF pos > Len(text) THEN 0
    ELSE IF Head(lit) = WsOne
         THEN IF text[pos] \in Whitespace THEN LitEnd(text, Tail(lit), pos + 1) ELSE 0
    ELSE IF text[pos] = Head(lit) THEN LitEnd(text, Tail(lit), pos + 1)
    ELSE 0

\* how many characters "." can take from pos on: at most n, and none of them a
\* line break
RECURSIVE DotRun(_, _, _)
DotRun(text, pos, n) ==
    IF n = 0 \/ pos > Len(text) \/ text[pos] = "NL" THEN 0
    ELSE 1 + DotRun(text, pos + 1, n - 1)

\* re's backtracking match of the parts k.. of a pattern at pos: alternatives in
\* their order, a gap longest first, an optional group taken before it is left
\* out; the position after the match, 0 without one
RECURSIVE MatchFrom(_, _, _, _)
RECURSIVE TryGap(_, _, _, _, _)
RECURSIVE TryAlt(_, _, _, _, _)
MatchFrom(text, pat, k, pos) ==
    IF k > Len(pat) THEN pos
    ELSE IF pat[k].t = "gap"
         THEN TryGap(text, pat, k, pos, DotRun(text, pos, pat[k].hi))
         ELSE LET r == TryAlt(text, pat, k, pos, 1)
              IN  IF r # 0 THEN r
                  ELSE IF pat[k].opt THEN MatchFrom(text, pat, k + 1, pos) ELSE 0

TryGap(text, pat, k, pos, n) ==
    IF n < 0 THEN 0
    ELSE LET r == MatchFrom(text, pat, k + 1, pos + n)
         IN  IF r # 0 THEN r ELSE TryGap(text, pat, k, pos, n - 1)

TryAlt(text, pat, k, pos, j) ==
    IF j > Len(pat[k].lits) THEN 0
    ELSE LET e == LitEnd(text, pat[k].lits[j], pos)
             r == IF e = 0 THEN 0 ELSE MatchFrom(text, pat, k + 1, e)
         IN  IF r # 0 THEN r ELSE TryAlt(text, pat, k, pos, j + 1)

NoMatch == [found |-> FALSE, text |-> <<>>]

\* re.search(pattern, text): the leftmost match, and its group(0)
RECURSIVE SearchFrom(_, _, _)
SearchFrom(text, pat, start) ==
    IF start > Len(text) + 1 THEN NoMatch
    ELSE LET e == MatchFrom(text, pat, 1, start)
         IN  IF e # 0 THEN [found |-> TRUE, text |-> SubSeq(text, start, e - 1)]
             ELSE SearchFrom(text, pat, start + 1)

Search(pat, text) == SearchFrom(text, pat, 1)

\* str.find(keyword): the first position of the keyword, 0 when absent
RECURSIVE FindFrom(_, _, _)
FindFrom(text, keyword, k) ==
    IF k + Len(keyword) - 1 > Len(text) THEN 0
    ELSE IF SubSeq(text, k, k + Len(keyword) - 1) = keyword THEN k
    ELSE FindFrom(text, keyword, k + 1)

Find(text, keyword) == FindFrom(text, keyword, 1)

\* the text of the window before position idx (lines 169-170)
BeforeText(text, idx) ==
    SubSeq(text, IF idx - NEGATION_WINDOW < 1 THEN 1 ELSE idx - NEGATION_WINDOW, idx - 1)

\* lines 172-174: some negation pattern is found in the window
NegationIn(before_text) ==
    \E n \in 1..Len(NEGATION_PATTERNS) : Search(<<Alt(<<NEGATION_PATTERNS[n]>>)>>, before_text).found

\* has_negation_before, lines 162-176
has_negation_before(text, keyword) ==
    LET idx == Find(text, keyword)
    IN  IF idx = 0 THEN FALSE ELSE NegationIn(BeforeText(text, idx))

\* analyze_context_sensitive_keyword, lines 179-201, for one entry of the table
analyze_context_sensitive_keyword(text, config) ==
    IF \E n \in 1..Len(config.positive_patterns) : Search(config.positive_patterns[n], text).found
    THEN "positive"
    ELSE IF \E n \in 1..Len(config.negative_patterns) :
               Search(config.negative_patterns[n], text).found
         THEN "negative"
         ELSE config.default

\* line 211: text.replace('\n', ' ').strip()
TextClean(text) == Strip([k \in 1..Len(text) |-> IF text[k] = "NL" THEN Space ELSE text[k]])

\* the label rule with a neutral band around zero
SentimentOf_NeutralBand(score) ==
    IF score < NEGATIVE_BELOW THEN "negative"
    ELSE IF score > -NEGATIVE_BELOW THEN "positive" ELSE "neutral"

\* lines 279-282
SentimentOf(score) == IF score < NEGATIVE_BELOW THEN "negative" ELSE "positive"

RECURSIVE SumWeights(_)
SumWeights(entries) ==
    IF entries = <<>> THEN 0 ELSE Head(entries).weight + SumWeights(Tail(entries))

ContextKeywords == {CONTEXT_SENSITIVE_KEYWORDS[n].kw : n \in 1..Len(CONTEXT_SENSITIVE_KEYWORDS)}

\* lines 220-223: the matches of the reversal patterns, in the order of the list
ReversalMatches(text_clean) ==
    SelectSeq([n \in 1..Len(SENTENCE_REVERSAL_PATTERNS) |->
                  Search(SENTENCE_REVERSAL_PATTERNS[n], text_clean)],
              LAMBDA m : m.found)

\* positive evidence: what lines 225, 238, 250 and 268 append
Evidence(kind, kw) == [kind |-> kind, kw |-> kw]

\* analyze_sentiment_with_context, lines 204-284
analyze_sentiment_with_context(text) ==
    LET text_clean == TextClean(text)
        \* step 0, lines 219-230
        reversals == ReversalMatches(text_clean)
        matched_keywords == {kw \in SeqToSet(RESOLVABLE_KEYWORDS) :
                               \E n \in 1..Len(reversals) : Contains(reversals[n].text, kw)}
        found0 == [n \in 1..Len(reversals) |->
                      Evidence("reversal", Take(reversals[n].text, EVIDENCE_PREFIX))]
        \* step 1, lines 234-242
        context == SelectSeq(CONTEXT_SENSITIVE_KEYWORDS,
                             LAMBDA c : Contains(text_clean, c.kw) /\ c.kw \notin matched_keywords)
        verdicts == [n \in 1..Len(context) |->
                        [kw |-> context[n].kw,
                         result |-> analyze_context_sensitive_keyword(text_clean, context[n])]]
        context_pos == SelectSeq(verdicts, LAMBDA v : v.result = "positive")
        context_neg == SelectSeq(verdicts, LAMBDA v : v.result = "negative")
        \* step 2, lines 246-251
        plain_pos == SelectSeq(POSITIVE_KEYWORDS,
                               LAMBDA e : /\ Contains(text_clean, e.kw)
                                          /\ ~has_negation_before(text_clean, e.kw))
        \* step 3, lines 254-276
        present_neg == SelectSeq(NEGATIVE_KEYWORDS,
                                 LAMBDA e : /\ e.kw \notin ContextKeywords
                                            /\ e.kw \notin matched_keywords
                                            /\ Contains(text_clean, e.kw))
        reversed == SelectSeq(present_neg,
                              LAMBDA e : /\ e.kw \in REVERSIBLE_KEYWORDS
                                         /\ has_negation_before(text_clean, e.kw))
        plain_neg == SelectSeq(present_neg,
                               LAMBDA e : ~(/\ e.kw \in REVERSIBLE_KEYWORDS
                                            /\ has_negation_before(text_clean, e.kw)))
        score == REVERSAL_SCORE * Len(reversals)
                 + CONTEXT_SCORE * Len(context_pos) - CONTEXT_SCORE * Len(context_neg)
                 + SumWeights(plain_pos) + SumWeights(reversed) - SumWeights(plain_neg)
    IN  [sentiment |-> SentimentOf(score),
         positive_found |->
              found0
              \o [n \in 1..Len(context_pos) |-> Evidence("context", context_pos[n].kw)]
              \o [n \in 1..Len(plain_pos) |-> Evidence("plain", plain_pos[n].kw)]
              \o [n \in 1..Len(reversed) |-> Evidence("negated", reversed[n].kw)],
         negative_found |->
              [n \in 1..Len(context_neg) |-> context_neg[n].kw]
              \o [n \in 1..Len(plain_neg) |-> plain_neg[n].kw],
         score |-> score]

\* the results a call may hand back for one text, were the evidence kept in
\* sets, whose order of iteration is not fixed
Outcomes_Unordered(returned) ==
    {returned,
     [returned EXCEPT !.positive_found = [n \in 1..Len(@) |-> @[Len(@) + 1 - n]]],
     [returned EXCEPT !.negative_found = [n \in 1..Len(@) |-> @[Len(@) + 1 - n]]]}

\* the results a call may hand back for one text: the tables are dicts and
\* lists, the evidence is kept in lists (lines 213-214), and both iterate in
\* insertion order, so there is one
Outcomes(returned) == {returned}

\* analyze_reviews lines 637-640: the rating's part in the label
FinalSentiment(sentiment, rating) ==
    IF rating >= 4 /\ sentiment # "negative" THEN "positive"
    ELSE IF rating <= 2 /\ rating > 0 /\ sentiment # "positive" THEN "negative"
    ELSE sentiment

\* analyze_reviews lines 629-640: the label of the text of each review, and the
\* label each review is counted under (the local variable sentiment after line 640)
RECURSIVE TextSentiments(_)
TextSentiments(reviews) ==
    IF reviews = <<>> THEN <<>>
    ELSE <<analyze_sentiment_with_context(Head(reviews).content).sentiment>>
         \o TextSentiments(Tail(reviews))

RECURSIVE CountedSentiments(_, _)
CountedSentiments(reviews, text_sentiments) ==
    IF reviews = <<>> THEN <<>>
    ELSE <<FinalSentiment(Head(text_sentiments), Head(reviews).rating)>>
         \o CountedSentiments(Tail(reviews), Tail(text_sentiments))

\* lines 642-647
CountLabel(sentiments, label) == Len(SelectSeq(sentiments, LAMBDA x : x = label))

\* the notice of lines 561 and 618, bun-seog-hal ri-byu-ga eobs-seub-ni-da.
NoReviewsNotice == <<"bun", "seog", "hal", Space, "ri", "byu", "ga", Space, "eobs", "seub", "ni", "da", ".">>

\* analyze_reviews lines 613-619: the result for no reviews; the two label
\* lists are those of the loop that did not run
EmptyReviewAnalysis ==
    [total_count |-> 0, positive_count |-> 0, negative_count |-> 0, neutral_count |-> 0,
     positive_ratio |-> 0, strengths |-> <<>>, weaknesses |-> <<>>,
     top_positive_keywords |-> <<>>, top_negative_keywords |-> <<>>,
     category_scores |-> <<>>, summary |-> NoReviewsNotice,
     text_sentiments |-> <<>>, sentiments |-> <<>>]

\* the counts of analyze_reviews for given labels, lines 642-647 and 685-688
ReviewCounts(text_sentiments, sentiments) ==
    [total_count |-> Len(sentiments),
     positive_count |-> CountLabel(sentiments, "positive"),
     negative_count |-> CountLabel(sentiments, "negative"),
     neutral_count |-> Len(SelectSeq(sentiments,
                                     LAMBDA x : x # "positive" /\ x # "negative")),
     text_sentiments |-> text_sentiments,
     sentiments |-> sentiments]

\* review texts: short phrases, any two of them joined by a blank, and longer
\* sentences that the reversal patterns match
ReviewPhrases ==
    {<<>>,
     <<"an", Space, "kkeun", "jeog", "yeo", "yo">>,
     <<"jeon", "hyeo", Space, "an", Space, "mu", "geo", "wo", "yo">>,
     <<"mu", "geo", "wo", "yo">>,
     <<"joh", "ah", "yo">>,
     <<"an", Space, "joh", "ah", "yo">>,
     <<"gang", "chu">>,
     <<"sil", "mang">>,
     <<"hu", "hoe">>,
     <<"byeol", "ro">>,
     <<"ja", "geug", Space, "eobs", "ih", Space, "sun", "hae", "yo">>,
     <<"ja", "geug", "ih", Space, "iss", "eo", "yo">>,
     <<"hyang", "ih", Space, "joh", "ah", "yo">>,
     <<"naem", "sae", Space, "na", "yo">>,
     <<"gag", "jil">>,
     <<"teu", "reo", "beul">>,
     <<"man", "jog">>}
LongReviews ==
    {<<"won", "rae", Space, "teu", "reo", "beul", Space, "jal", Space, "ol", "ra", "oh", "neun", Space, "pyeon", "in", "de", Space, "an", Space, "nass", "eo", "yo">>,
     <<"pyeong", "so", Space, "gag", "jil", Space, "manh", "ass", "neun", "de", Space, "ih", "geo", Space, "sseu", "go", Space, "eobs", "eo", "jyeoss", "eo", "yo">>,
     <<"teu", "reo", "beul", "ih", Space, "iss", "eoss", "neun", "de", Space, "sa", "ra", "jyeoss", "eo", "yo">>,
     <<"geog", "jeong", "haess", "neun", "de", Space, "ja", "geug", Space, "eobs", "eo", "yo">>,
     <<"min", "gam", "han", Space, "pi", "bu", "in", "de", Space, "teu", "reo", "beul", Space, "eobs", "eo", "yo">>,
     <<"sseu", "go", Space, "na", "seo", Space, "kkeun", "jeog", Space, "eobs", "eo", "yo">>,
     <<"joh", "ah", "yo", "NL", "byeol", "ro", Space>>,
     <<"gang", "chu", Space, "sil", "mang", Space, "hu", "hoe">>,
     <<"mu", "geo", "wo", "yo", Space, "jeon", "hyeo", Space, "an", Space, "mu", "geo", "wo", "yo">>,
     <<"hyang", "ih", Space, "gang", "hae", "yo", Space, "gag", "jil", Space, "mil", "rim", Space, "sil", "mang">>,
     <<"joh", "ah", "yo", Space, "sil", "mang", Space, "hu", "hoe">>,
     <<"kkeun", "jeog", "geo", "ryeo", "yo">>}
ReviewTexts == {a \o <<Space>> \o b : a \in ReviewPhrases, b \in ReviewPhrases} \cup LongReviews

\* the reviews analyze_reviews is given: a content and a rating, 0 when unknown
Ratings == 0..5
AnalyzedContents == {<<"joh", "ah", "yo">>, <<"sil", "mang">>, <<"gang", "chu", Space, "sil", "mang", Space, "hu", "hoe">>}
AnalyzedReviews == [content : AnalyzedContents, rating : Ratings]
ReviewBatches == {<<>>} \cup {<<r>> : r \in AnalyzedReviews}
                        \cup {<<r, [content |-> <<"joh", "ah", "yo">>, rating |-> 1]>> : r \in AnalyzedReviews}

----------------------------------------------------------------------------
(* Batch analysis: unique features (review_analyzer.py).                   *)

\* unique_patterns, lines 424-452, in the order of the list: pattern and category
UNIQUE_PATTERNS ==
    <<[category |-> <<"je", "hyeong">>,
       pattern |->
          <<Alt(<<<<"je", "hyeong">>, <<"teg", "seu", "cheo">>, <<"jil", "gam">>, <<"bal", "rim", "seong">>>>),
            Gap(5),
            Opt(<<<<"ih">>, <<"ga">>, <<"do">>>>),
            Gap(30),
            Alt(<<<<"teug", "ih">>, <<"dog", "teug">>, <<"sin", "gi">>, <<"cheo", "eum">>, <<"sae", "ro">>, <<"da", "reu">>>>)>>],
      [category |-> <<"je", "hyeong">>,
       pattern |->
          <<Alt(<<<<"cheo", "eum">>, <<"cheom">>>>),
            Gap(10),
            Alt(<<<<"bo", "neun">>, <<"sseo", "bo", "neun">>, <<"sa", "yong", "hae", "bo", "neun">>, <<"man", "na", "neun">>>>),
            Gap(30),
            Alt(<<<<"je", "hyeong">>, <<"teg", "seu", "cheo">>, <<"jil", "gam">>, <<"ta", "ib">>, <<"hyeong", "tae">>>>)>>],
      [category |-> <<"je", "hyeong">>,
       pattern |->
          <<Alt(<<<<"jel">>, <<"keu", "rim">>, <<"ro", "syeon">>, <<"oh", "il">>, <<"mu", "seu">>, <<"bam">>, <<"eh", "sen", "seu">>, <<"se", "reom">>>>),
            Gap(5),
            Alt(<<<<"ta", "ib">>, <<"hyeong", "tae">>, <<"je", "hyeong">>>>),
            Gap(20),
            Alt(<<<<"teug", "ih">>, <<"sin", "gi">>, <<"dog", "teug">>, <<"cheo", "eum">>>>)>>],
      [category |-> <<"je", "hyeong">>,
       pattern |->
          <<Alt(<<<<"ih", "reon">>, <<"ih", "reoh", "ge">>>>),
            Gap(10),
            Alt(<<<<"je", "hyeong">>, <<"teg", "seu", "cheo">>, <<"jil", "gam">>, <<"bal", "rim">>>>),
            Gap(20),
            Alt(<<<<"cheo", "eum">>, <<"cheom">>, <<"eobs">>>>)>>],
      [category |-> <<"di", "ja", "in">>,
       pattern |->
          <<Alt(<<<<"di", "ja", "in">>, <<"pae", "ki", "ji">>, <<"pae", "ki", "jing">>, <<"yong", "gi">>, <<"ttu", "kkeong">>, <<"peom", "peu">>>>),
            Gap(30),
            Alt(<<<<"teug", "ih">>, <<"dog", "teug">>, <<"ye", "ppeu">>, <<"sin", "gi">>, <<"pyeon", "ri">>, <<"cheo", "eum">>>>)>>],
      [category |-> <<"di", "ja", "in">>,
       pattern |->
          <<Alt(<<<<"teug", "ih">>, <<"dog", "teug">>, <<"sin", "gi">>>>),
            Gap(10),
            Alt(<<<<"di", "ja", "in">>, <<"pae", "ki", "ji">>, <<"pae", "ki", "jing">>, <<"yong", "gi">>>>)>>],
      [category |-> <<"hyang">>,
       pattern |->
          <<Alt(<<<<"hyang">>, <<"naem", "sae">>, <<"hyang", "gi">>>>),
            Gap(5),
            Opt(<<<<"ih">>, <<"ga">>>>),
            Gap(20),
            Alt(<<<<"teug", "ih">>, <<"dog", "teug">>, <<"sin", "gi">>, <<"cheo", "eum">>, <<"sae", "ro">>>>)>>],
      [category |-> <<"hyang">>,
       pattern |->
          <<Alt(<<<<"ih", "reon">>, <<"ih", "reoh", "ge">>>>),
            Gap(5),
            Alt(<<<<"hyang">>, <<"naem", "sae">>>>),
            Gap(15),
            Alt(<<<<"cheo", "eum">>, <<"cheom">>, <<"eobs">>>>)>>],
      [category |-> <<"seong", "bun">>,
       pattern |->
          <<Alt(<<<<"seong", "bun">>, <<"won", "ryo">>, <<"chu", "chul", "mul">>>>),
            Gap(30),
            Alt(<<<<"teug", "ih">>, <<"dog", "teug">>, <<"cheo", "eum">>, <<"sae", "ro">>, <<"hui", "gwi">>>>)>>],
      [category |-> <<"hyo", "gwa">>,
       pattern |->
          <<Alt(<<<<"hyo", "gwa">>, <<"gi", "neung">>>>),
            Gap(5),
            Opt(<<<<"ga">>, <<"ih">>>>),
            Gap(25),
            Alt(<<<<"teug", "ih">>, <<"dog", "teug">>, <<"sin", "gi">>, <<"da", "reu">>>>)>>],
      [category |-> <<"sa", "yong", "gam">>,
       pattern |->
          <<Alt(<<<<"sa", "yong", "gam">>, <<"neu", "kkim">>, <<"gam", "chog">>>>),
            Gap(5),
            Opt(<<<<"ih">>, <<"ga">>>>),
            Gap(25),
            Alt(<<<<"teug", "ih">>, <<"dog", "teug">>, <<"sin", "gi">>, <<"cheo", "eum">>, <<"sae", "ro">>>>)>>],
      [category |-> <<"sa", "yong", "gam">>,
       pattern |->
          <<Alt(<<<<"ba", "reu">>, <<"sa", "yong", "ha">>>>),
            Gap(5),
            Alt(<<<<"myeon">>, <<"ja", "ma", "ja">>, <<"neun", WsAny, "sun", "gan">>>>),
            Gap(30),
            Alt(<<<<"teug", "ih">>, <<"dog", "teug">>, <<"sin", "gi">>>>)>>],
      [category |-> <<"cha", "byeol", "jeom">>,
       pattern |->
          <<Alt(<<<<"da", "reun">>, <<"ta">>>>),
            Gap(5),
            Alt(<<<<"je", "pum">>, <<"beu", "raen", "deu">>>>),
            Gap(5),
            Opt(<<<<"eh">>, <<"gwa">>, <<"wa">>, <<"ih", "rang">>>>),
            Gap(5),
            Alt(<<<<"eobs", "neun">>, <<"da", "reun">>, <<"cha", "byeol">>>>),
            Gap(40)>>],
      [category |-> <<"sin", "gyu", "gyeong", "heom">>,
       pattern |->
          <<Alt(<<<<"cheo", "eum">>, <<"cheom">>, <<"saeng", "jeon">>>>),
            Gap(5),
            Alt(<<<<"bo">>, <<"sseo">>, <<"sa", "yong">>, <<"gyeong", "heom">>, <<"man", "na">>>>),
            Gap(40)>>],
      [category |-> <<"dog", "jeom">>,
       pattern |->
          <<Alt(<<<<"yeo", "gi">>, <<"ih", WsAny, "je", "pum">>, <<"ih", "geo">>>>),
            Gap(5),
            Alt(<<<<"man">>, <<"eh", "seo", "man">>, <<"bagg", "eh">>>>),
            Gap(30)>>],
      [category |-> <<"yu", "il">>,
       pattern |->
          <<Alt(<<<<"yu", "il">>, <<"yu", "il", "ha", "ge">>>>),
            Gap(40)>>]>>

\* priority_categories, line 490
PRIORITY_CATEGORIES ==
    <<<<"je", "hyeong">>, <<"di", "ja", "in">>, <<"sa", "yong", "gam">>, <<"hyang">>,
      <<"seong", "bun">>, <<"cha", "byeol", "jeom">>, <<"sin", "gyu", "gyeong", "heom">>, <<"yu", "il">>,
      <<"dog", "jeom">>, <<"hyo", "gwa">>>>

\* line 479: text[:30]
FEATURE_KEY_LENGTH == 30
\* line 494: category_features[cat][:2]
MAX_PER_CATEGORY == 2
\* line 497: result[:10]
MAX_FEATURES == 10

\* lines 459-468: the category of the first pattern of the list that the
\* content matches, from pattern n on; <<>> when none does
RECURSIVE FirstMatchingCategory(_, _)
FirstMatchingCategory(content, n) ==
    IF n > Len(UNIQUE_PATTERNS) THEN <<>>
    ELSE IF Search(UNIQUE_PATTERNS[n].pattern, content).found
         THEN UNIQUE_PATTERNS[n].category
         ELSE FirstMatchingCategory(content, n + 1)

\* lines 454-468: unique_mentions; reviews are given by their content
RECURSIVE UniqueMentions(_)
UniqueMentions(reviews) ==
    IF reviews = <<>> THEN <<>>
    ELSE LET content == Head(reviews)
             category == IF content = <<>> THEN <<>> ELSE FirstMatchingCategory(content, 1)
         IN  (IF category = <<>> THEN <<>>
              ELSE <<[category |-> category, text |-> content]>>)
             \o UniqueMentions(Tail(reviews))

\* lines 474-482: the mentions whose first 30 characters were not seen before
RECURSIVE DistinctMentions(_, _)
DistinctMentions(mentions, seen_texts) ==
    IF mentions = <<>> THEN <<>>
    ELSE LET text_key == Take(Head(mentions).text, FEATURE_KEY_LENGTH)
         IN  IF text_key \in seen_texts THEN DistinctMentions(Tail(mentions), seen_texts)
             ELSE <<Head(mentions)>>
                  \o DistinctMentions(Tail(mentions), seen_texts \cup {text_key})

\* the entries of one category without the [:2] of line 494
CategoryFeatures_NoCap(mentions, cat) == SelectSeq(mentions, LAMBDA m : m.category = cat)

\* lines 484-486 and 494-495: the entries of one category; an entry stands for
\* the string f"[{cat}] {text}", which carries the category and then the text
CategoryFeatures(mentions, cat) ==
    Take(SelectSeq(mentions, LAMBDA m : m.category = cat), MAX_PER_CATEGORY)

\* lines 492-495: the entries, category by category in the order of the list
RECURSIVE FeaturesInPriority(_, _)
FeaturesInPriority(mentions, cats) ==
    IF cats = <<>> THEN <<>>
    ELSE CategoryFeatures(mentions, Head(cats)) \o FeaturesInPriority(mentions, Tail(cats))

\* extract_unique_features, lines 414-497
extract_unique_features(reviews) ==
    Take(FeaturesInPriority(DistinctMentions(UniqueMentions(reviews), {}),
                            PRIORITY_CATEGORIES),
         MAX_FEATURES)

\* review contents given to extract_unique_features: without a pattern, one or
\* more per category, one that patterns of two categories match, one whose
\* words a line break parts, and two that agree in their first 30 characters
Filler == [k \in 1..25 |-> "go"]
FeatureContents ==
    {<<>>, <<"joh", "ah", "yo">>, <<"je", "hyeong", Space, "teug", "ih">>,
     <<"jil", "gam", Space, "dog", "teug">>, <<"teg", "seu", "cheo", Space, "sin", "gi">>, <<"je", "hyeong", Space, "teug", "ih", Space, "di", "ja", "in">>,
     <<"je", "hyeong", "NL", "teug", "ih">>, <<"yong", "gi", Space, "ye", "ppeu">>, <<"teug", "ih", Space, "di", "ja", "in">>,
     <<"neu", "kkim", Space, "cheo", "eum">>, <<"gam", "chog", Space, "sae", "ro">>, <<"hyang", Space, "dog", "teug">>,
     <<"naem", "sae", Space, "sin", "gi">>, <<"seong", "bun", Space, "hui", "gwi">>, <<"won", "ryo", Space, "teug", "ih">>,
     <<"yu", "il">>, <<"yu", "il", "ha", "ge">>, <<"hyo", "gwa", Space, "sin", "gi">>,
     <<"cheo", "eum", Space, "sseo", "bwa", "yo">>, <<"ih", Space, "je", "pum", "man">>, <<"je", "hyeong", Space, "teug", "ih">> \o Filler \o <<"ga">>,
     <<"je", "hyeong", Space, "teug", "ih">> \o Filler \o <<"na">>}
\* a batch with three reviews of the first category and two of six others
ManyFeatureReviews ==
    <<<<"hyo", "gwa", Space, "sin", "gi">>, <<"yu", "il">>, <<"yu", "il", "ha", "ge">>,
      <<"seong", "bun", Space, "hui", "gwi">>, <<"won", "ryo", Space, "teug", "ih">>, <<"hyang", Space, "dog", "teug">>,
      <<"naem", "sae", Space, "sin", "gi">>, <<"neu", "kkim", Space, "cheo", "eum">>, <<"gam", "chog", Space, "sae", "ro">>,
      <<"yong", "gi", Space, "ye", "ppeu">>, <<"teug", "ih", Space, "di", "ja", "in">>, <<"je", "hyeong", Space, "teug", "ih">>,
      <<"jil", "gam", Space, "dog", "teug">>, <<"teg", "seu", "cheo", Space, "sin", "gi">>>>
\* the first review of the two-review batches
FeatureLeads ==
    {<<"je", "hyeong", Space, "teug", "ih">>,
     <<"hyo", "gwa", Space, "sin", "gi">>,
     <<"je", "hyeong", Space, "teug", "ih">> \o Filler \o <<"ga">>,
     <<"je", "hyeong", Space, "teug", "ih", Space, "di", "ja", "in">>,
     <<>>}
FeatureBatches ==
    {<<>>, ManyFeatureReviews} \cup {<<a>> : a \in FeatureContents}
        \cup {<<a, b>> : a \in FeatureLeads, b \in FeatureContents}

ExtractUniqueFeatures ==
    /\ analysis.op = "none"
    /\ \E b \in FeatureBatches :
          analysis' = [op |-> "extract_unique_features", input |-> b,
                       out |-> extract_unique_features(b)]
    /\ UNCHANGED <<collectorVars, dictVars, fileVars>>

----------------------------------------------------------------------------
(* Batch analysis: comparison sentences (review_analyzer.py).              *)

\* comparison_patterns, lines 390-394, in the order of the list
COMPARISON_PATTERNS ==
    <<<<Gap(20),
        Alt(<<<<"bo", "da">>, <<"dae", "bi">>, <<"bi", "hae">>, <<"bi", "gyo">>, <<"dal", "ri">>, <<"cha", "ih">>, <<"v", "s">>, <<"V", "S">>>>),
        Gap(30)>>,
      <<Gap(20),
        Alt(<<<<"ih", "jeon">>, <<"jeon", "eh">>, <<"won", "rae">>, <<"gi", "jon">>>>),
        Gap(20),
        Alt(<<<<"sseu", "deon">>, <<"sseoss", "deon">>, <<"sa", "yong", "ha", "deon">>>>),
        Gap(30)>>,
      <<Gap(20),
        Alt(<<<<"gal", "ah", "tass">>, <<"ba", "kkwoss">>, <<"gyo", "che">>>>),
        Gap(30)>>>>

\* line 407: len(sentence) > 10
COMPARISON_MIN_LENGTH == 10
\* line 411: comparisons[:20]
MAX_COMPARISONS == 20

\* what the groups of the parts k.. of a pattern capture in the match re finds
\* at pos (there is one): a gap takes the most characters that let the rest
\* match, a group its first alternative that does, an optional group left out
\* captures the empty string
RECURSIVE GroupsFrom(_, _, _, _)
GroupsFrom(text, pat, k, pos) ==
    IF k > Len(pat) THEN <<>>
    ELSE IF pat[k].t = "gap"
    THEN LET most == DotRun(text, pos, pat[k].hi)
             n == CHOOSE n \in 0..most :
                     /\ MatchFrom(text, pat, k + 1, pos + n) # 0
                     /\ \A m \in (n + 1)..most : MatchFrom(text, pat, k + 1, pos + m) = 0
         IN  GroupsFrom(text, pat, k + 1, pos + n)
    ELSE LET taken(j) == /\ LitEnd(text, pat[k].lits[j], pos) # 0
                         /\ MatchFrom(text, pat, k + 1, LitEnd(text, pat[k].lits[j], pos)) # 0
         IN  IF \E j \in 1..Len(pat[k].lits) : taken(j)
             THEN LET j == CHOOSE j \in 1..Len(pat[k].lits) :
                              taken(j) /\ \A h \in 1..(j - 1) : ~taken(h)
                      e == LitEnd(text, pat[k].lits[j], pos)
                  IN  <<SubSeq(text, pos, e - 1)>> \o GroupsFrom(text, pat, k + 1, e)
             ELSE <<<<>>>> \o GroupsFrom(text, pat, k + 1, pos)

\* re.findall(pattern, text) for a pattern with groups: the matches from left
\* to right, none overlapping another, each given by what its groups captured
RECURSIVE FindAllFrom(_, _, _)
FindAllFrom(text, pat, start) ==
    IF start > Len(text) + 1 THEN <<>>
    ELSE LET e == MatchFrom(text, pat, 1, start)
         IN  IF e = 0 THEN FindAllFrom(text, pat, start + 1)
             ELSE <<GroupsFrom(text, pat, 1, start)>>
                  \o FindAllFrom(text, pat, IF e > start THEN e ELSE start + 1)

\* lines 401-406: the sentences of one content, pattern by pattern from n on;
\* findall gives the one group of a pattern as a string, several as a tuple,
\* which line 405 joins with blanks
RECURSIVE ComparisonMatches(_, _)
ComparisonMatches(content, n) ==
    IF n > Len(COMPARISON_PATTERNS) THEN <<>>
    ELSE LET matches == FindAllFrom(content, COMPARISON_PATTERNS[n], 1)
         IN  [k \in 1..Len(matches) |-> Strip(JoinSentences(matches[k]))]
             \o ComparisonMatches(content, n + 1)

\* lines 399-406 over all reviews; reviews are given by their content
RECURSIVE AllComparisonMatches(_)
AllComparisonMatches(reviews) ==
    IF reviews = <<>> THEN <<>>
    ELSE ComparisonMatches(Head(reviews), 1) \o AllComparisonMatches(Tail(reviews))

\* extract_comparison_sentences, lines 388-411
extract_comparison_sentences(reviews) ==
    Take(DistinctInOrder(SelectSeq(AllComparisonMatches(reviews),
                                   LAMBDA sentence : Len(sentence) > COMPARISON_MIN_LENGTH),
                         {}),
         MAX_COMPARISONS)

\* review contents given to extract_comparison_sentences: without a marker,
\* a marker alone, markers of each pattern inside a longer clause, two lines
ComparisonContents ==
    {<<>>,
     <<"joh", "ah", "yo">>,
     <<"bo", "da">>,
     <<"da", "reun", Space, "je", "pum", "bo", "da", Space, "hwol", "ssin", Space, "chog", "chog", "hae", "yo">>,
     <<"me", "di", "hil", "eh", "seo", Space, "gal", "ah", "tass", "eo", "yo", Space, "sun", "hae", "yo">>,
     <<"ih", "jeon", "eh", Space, "sseu", "deon", Space, "keu", "rim", "bo", "da", Space, "joh", "ah", "yo">>,
     <<"jeon", "bo", "da", Space, "joh", "ah", "yo", "NL", "gi", "jon", Space, "je", "pum", Space, "dae", "bi", Space, "sun", "hae", "yo">>}
ComparisonBatches ==
    {<<>>} \cup {<<a>> : a \in ComparisonContents}
           \cup {<<a, b>> : a \in ComparisonContents, b \in ComparisonContents}

ExtractComparisonSentences ==
    /\ analysis.op = "none"
    /\ \E b \in ComparisonBatches :
          analysis' = [op |-> "extract_comparison_sentences", input |-> b,
                       out |-> extract_comparison_sentences(b)]
    /\ UNCHANGED <<collectorVars, dictVars, fileVars>>

----------------------------------------------------------------------------
(* Batch analysis: marketing points (review_analyzer.py).                  *)

\* FEATURE_KEYWORDS lines 327-341, its keys in the order of the dict
FEATURE_KEYWORDS ==
    <<<<"mu", "seu">>, <<"keu", "rim">>, <<"jel">>, <<"ro", "syeon">>,
      <<"eh", "sen", "seu">>, <<"se", "reom">>, <<"oh", "il">>, <<"bam">>,
      <<"seu", "tig">>, <<"ku", "syeon">>, <<"pa", "uh", "deo">>,
      <<"mi", "seu", "teu">>, <<"hi", "al", "ru", "ron", "san">>,
      <<"na", "ih", "ah", "sin", "ah", "ma", "ih", "deu">>,
      <<"re", "ti", "nol">>, <<"bi", "ta", "min">>,
      <<"se", "ra", "ma", "ih", "deu">>, <<"pan", "te", "nol">>,
      <<"si", "ka">>, <<"sen", "tel", "ra">>, <<"C", "I", "C", "A">>,
      <<"c", "i", "c", "a">>, <<"peu", "ro", "pol", "ri", "seu">>,
      <<"nog", "cha">>, <<"byeong", "pul">>, <<"jeo", "ja", "geug">>,
      <<"min", "gam", "seong">>, <<"bi", "geon">>, <<"mu", "hyang">>,
      <<"mu", "al", "kol">>, <<"mu", "pa", "ra", "ben">>,
      <<"ja", "yeon", "yu", "rae">>, <<"deo", "beul", "se", "reom">>,
      <<"aem", "peul">>>>

\* extract_repeated_keywords line 344: min_count
MIN_REPEAT_COUNT == 5
\* extract_repeated_keywords line 356: most_common(20)
TOP_REPEATED == 20
\* analyze_marketing_points line 584: the first three competitors
TOP_INSIGHTS == 3

\* str.count from pos on: occurrences that do not overlap, leftmost first
RECURSIVE StrCount(_, _, _)
StrCount(text, keyword, pos) ==
    IF pos + Len(keyword) - 1 > Len(text) THEN 0
    ELSE IF SubSeq(text, pos, pos + Len(keyword) - 1) = keyword
    THEN 1 + StrCount(text, keyword, pos + Len(keyword))
    ELSE StrCount(text, keyword, pos + 1)

\* Counter.most_common() of the counted keywords, lines 349-356: by count,
\* descending, ties in the order the keywords were counted
RECURSIVE RankedKeywords(_, _)
RankedKeywords(ws, all_text) ==
    IF ws = <<>> THEN <<>>
    ELSE LET c(j) == StrCount(all_text, ws[j], 1)
             k == CHOOSE j \in 1..Len(ws) :
                    /\ \A h \in 1..Len(ws) : c(h) <= c(j)
                    /\ \A h \in 1..(j - 1) : c(h) < c(j)
         IN  <<<<ws[k], c(k)>>>> \o
             RankedKeywords(SubSeq(ws, 1, k - 1) \o SubSeq(ws, k + 1, Len(ws)), all_text)

\* extract_repeated_keywords, lines 344-356; reviews are given by their content
extract_repeated_keywords(reviews) ==
    LET all_text == JoinSentences(reviews)
        counted == SelectSeq(FEATURE_KEYWORDS,
                             LAMBDA kw : StrCount(all_text, kw, 1) >= MIN_REPEAT_COUNT)
    IN  Take(RankedKeywords(counted, all_text), TOP_REPEATED)

\* the first review find_competitor_mentions counts the brand in (lines 373-383)
FirstMention(reviews, brand) ==
    CHOOSE k \in 1..Len(reviews) :
       /\ Contains(Lower(reviews[k]), Lower(brand))
       /\ \A h \in 1..(k - 1) : ~Contains(Lower(reviews[h]), Lower(brand))

\* the orders the items of the mentions dict can stand in (line 385): by count,
\* descending; brands of one count in the order they were first counted, which
\* for brands first met in one review is the iteration order of the set
\* COMPETITOR_BRANDS, any order
MentionOrders(reviews, mentions) ==
    {s \in [1..Cardinality(DOMAIN mentions) -> DOMAIN mentions] :
        /\ \A a, b \in DOMAIN s : a # b => s[a] # s[b]
        /\ \A a, b \in DOMAIN s : a < b =>
              \/ mentions[s[a]] > mentions[s[b]]
              \/ /\ mentions[s[a]] = mentions[s[b]]
                 /\ FirstMention(reviews, s[a]) <= FirstMention(reviews, s[b])}

\* analyze_marketing_points lines 582-585: one insight for each of the first
\* three items, written as the pair the sentence is formatted from
ComparisonInsights(mentions, order) ==
    [k \in 1..(IF Len(order) < TOP_INSIGHTS THEN Len(order) ELSE TOP_INSIGHTS) |->
        [competitor |-> order[k], count |-> mentions[order[k]]]]

\* the result of lines 556-562 with the notice among the insights
EmptyMarketingPoints_NoticeAsInsight ==
    [repeated_keywords |-> <<>>, unique_features |-> <<>>, competitor_mentions |-> <<>>,
     comparison_insights |-> <<NoReviewsNotice>>, marketing_suggestions |-> <<>>]

\* analyze_marketing_points lines 556-562: the result for no reviews
EmptyMarketingPoints ==
    [repeated_keywords |-> <<>>, unique_features |-> <<>>, competitor_mentions |-> <<>>,
     comparison_insights |-> <<>>, marketing_suggestions |-> <<NoReviewsNotice>>]

\* analyze_marketing_points, lines 555-593: the results it can return; reviews
\* are given by their content.  For a batch with reviews the record holds the
\* four analysed fields of lines 588-591; the suggestion lines of line 592
\* are formatted from them and from the strength sentences of analyze_reviews
\* and are left out.
analyze_marketing_points(reviews, brand) ==
    IF reviews = <<>> THEN {EmptyMarketingPoints}
    ELSE LET competitor_mentions == find_competitor_mentions(reviews, brand)
         IN  {[repeated_keywords |-> extract_repeated_keywords(reviews),
               unique_features |-> extract_unique_features(reviews),
               competitor_mentions |-> competitor_mentions,
               comparison_insights |-> ComparisonInsights(competitor_mentions, order)] :
                 order \in MentionOrders(reviews, competitor_mentions)}

\* contents: a formulation named five times, a keyword that holds another one,
\* two competitors beside a feature keyword, two more beside a first-use
\* remark, and a plain remark
MarketingContents ==
    {<<"keu", "rim", Space, "keu", "rim", Space, "keu", "rim", Space, "keu", "rim", Space, "keu", "rim">>,
     <<"deo", "beul", "se", "reom", Space, "deo", "beul", "se", "reom", Space, "deo", "beul", "se", "reom", Space, "deo", "beul", "se", "reom", Space, "deo", "beul", "se", "reom", Space, "se", "reom">>,
     <<"keul", "ri", "oh", Space, "me", "di", "hil", "bo", "da", Space, "mu", "hyang">>,
     <<"dal", "ba", Space, "c", "o", "s", "r", "x", Space, "cheo", "eum", Space, "sseo", "bo", "neun", Space, "je", "hyeong", "ih", "eh", "yo">>,
     <<"joh", "ah", "yo">>}
MarketingBatches == {<<>>} \cup {<<a>> : a \in MarketingContents}
                           \cup {<<a, b>> : a \in MarketingContents, b \in MarketingContents}
MarketingBrands == {<<>>, Clio}

----------------------------------------------------------------------------
(* Batch analysis: state machine.  A run makes one batch call on a loaded  *)
(* dictionary; the classifier may then be run again on the same text.      *)

Classify ==
    /\ analysis.op = "none"
    /\ \E text \in ReviewTexts :
          \E r \in Outcomes(analyze_sentiment_with_context(text)) :
             analysis' = [op |-> "analyze_sentiment_with_context", input |-> text, out |-> r]
    /\ UNCHANGED <<collectorVars, dictVars, fileVars>>

ClassifyAgain ==
    /\ analysis.op = "analyze_sentiment_with_context"
    /\ \E r \in Outcomes(analyze_sentiment_with_context(analysis.input)) :
          analysis' = [analysis EXCEPT !.out = r]
    /\ UNCHANGED <<collectorVars, dictVars, fileVars>>

AnalyzeReviews ==
    /\ analysis.op = "none"
    /\ \E b \in ReviewBatches :
          \E ts \in {TextSentiments(b)} :
             analysis' = [op |-> "analyze_reviews", input |-> b,
                          out |-> IF b = <<>> THEN EmptyReviewAnalysis
                                  ELSE ReviewCounts(ts, CountedSentiments(b, ts))]
    /\ UNCHANGED <<collectorVars, dictVars, fileVars>>

AnalyzeMarketingPoints ==
    /\ analysis.op = "none"
    /\ \E b \in MarketingBatches, brand \in MarketingBrands :
          \E r \in analyze_marketing_points(b, brand) :
             analysis' = [op |-> "analyze_marketing_points",
                          input |-> [reviews |-> b, brand |-> brand], out |-> r]
    /\ UNCHANGED <<collectorVars, dictVars, fileVars>>

DetectNewCandidates ==
    /\ dict_state = "loaded"
    /\ analysis.op = "none"
    /\ \E b \in Batches :
          analysis' = [op |-> "detect_new_candidates", input |-> b,
                       out |-> detect_new_candidates(b, AllTriggerKeywords(keywords), exclusion,
                                                     RejectedWords(rejected), MIN_LENGTH, MAX_LENGTH)]
    /\ UNCHANGED <<collectorVars, dictVars, fileVars>>

AnalysisTriggerFiles == {NoFile} \cup {JsonFile(t) : t \in AnalysisTaxonomies}
AnalysisExclusionFiles == {NoFile, JsonFile(<<<<"geu", "ri">>>>)}

AnalysisInit ==
    /\ trigger_file \in AnalysisTriggerFiles
    /\ exclusion_file \in AnalysisExclusionFiles
    /\ candidate_file = NoFile
    /\ dict_state = "loaded"
    /\ keywords = LoadedTaxonomy(trigger_file)
    /\ exclusion = LoadedExclusion(exclusion_file)
    /\ candidates = LoadedCandidates(candidate_file).candidates
    /\ rejected = LoadedCandidates(candidate_file).rejected
    /\ last = NoCall
    /\ ever_rejected = {}
    /\ analysis = NoAnalysis
    /\ CollectorIdle

AnalysisNext ==
    \/ Classify
    \/ ClassifyAgain
    \/ AnalyzeReviews
    \/ FindCompetitorMentions
    \/ ExtractUspCandidates
    \/ ExtractUniqueFeatures
    \/ ExtractComparisonSentences
    \/ AnalyzeMarketingPoints
    \/ DetectNewCandidates

SpecAnalysis == AnalysisInit /\ [][AnalysisNext]_vars

----------------------------------------------------------------------------
(* Batch analysis: properties.                                             *)

Classified == analysis.op = "analyze_sentiment_with_context"

\* keyword has an occurrence in text with a negation marker in the window before it
NegatedOccurrence(text, keyword) ==
    \E idx \in 1..(Len(text) - Len(keyword) + 1) :
       /\ SubSeq(text, idx, idx + Len(keyword) - 1) = keyword
       /\ NegationIn(BeforeText(text, idx))

ReversibleNegatives ==
    {NEGATIVE_KEYWORDS[n].kw : n \in 1..Len(NEGATIVE_KEYWORDS)} \cap REVERSIBLE_KEYWORDS

\* C14: a reversible negative keyword that a negation marker precedes within
\* eight characters is reported as positive evidence and is absent from the
\* negative evidence.
C14_NegatedReversibleIsPositive ==
    Classified =>
       \A kw \in ReversibleNegatives :
          NegatedOccurrence(TextClean(analysis.input), kw) =>
             /\ \E n \in 1..Len(analysis.out.positive_found) :
                   /\ analysis.out.positive_found[n].kw = kw
                   /\ analysis.out.positive_found[n].kind \in {"negated", "context"}
             /\ ~InSeq(kw, analysis.out.negative_found)

NegativeOrContextKeywords ==
    {NEGATIVE_KEYWORDS[n].kw : n \in 1..Len(NEGATIVE_KEYWORDS)} \cup ContextKeywords

\* C15: no keyword of the negative lexicon or of the context-sensitive table
\* that lies inside the span matched by a reversal pattern is in the negative
\* evidence.
C15_ResolvedSpanNotNegative ==
    Classified =>
       LET spans == ReversalMatches(TextClean(analysis.input))
       IN  \A n \in 1..Len(spans), kw \in NegativeOrContextKeywords :
              Contains(spans[n].text, kw) => ~InSeq(kw, analysis.out.negative_found)

\* the places of the text on which some keyword of the set stands
Covered(text, kws) ==
    {p \in 1..Len(text) :
        \E kw \in kws : \E idx \in 1..(Len(text) - Len(kw) + 1) :
           /\ SubSeq(text, idx, idx + Len(kw) - 1) = kw
           /\ idx <= p /\ p < idx + Len(kw)}

\* the places of the text inside the match of a reversal pattern
ReversalCovered(text) ==
    LET spans == ReversalMatches(text)
    IN  {p \in 1..Len(text) :
            \E n \in 1..Len(spans) :
               /\ Find(text, spans[n].text) <= p
               /\ p < Find(text, spans[n].text) + Len(spans[n].text)}

\* the keywords that entered the score at one step, read from the evidence:
\* step 1 (context-sensitive table), step 2 (positive lexicon), step 3
\* (negative lexicon, whether counted against or, negated, for the product)
ScoredKeywords(out, step) ==
    LET pos(kind) == {out.positive_found[n].kw :
                         n \in {m \in 1..Len(out.positive_found) :
                                   out.positive_found[m].kind = kind}}
        neg == SeqToSet(out.negative_found)
    IN  IF step = 1 THEN pos("context") \cup (neg \cap ContextKeywords)
        ELSE IF step = 2 THEN pos("plain")
        ELSE pos("negated") \cup (neg \ ContextKeywords)

\* C25: no place of the review text enters the score at more than one of the
\* four steps (reversal pattern, context-sensitive keyword, positive lexicon,
\* negative lexicon).
C25_NoSpanScoredTwice ==
    Classified =>
       LET text == TextClean(analysis.input)
           covered == [step \in 0..3 |->
                          IF step = 0 THEN ReversalCovered(text)
                          ELSE Covered(text, ScoredKeywords(analysis.out, step))]
       IN  \A a, b \in 0..3 : a # b => covered[a] \cap covered[b] = {}

C17_LabelFollowsScore ==
    /\ Classified =>
          /\ analysis.out.sentiment \in {"positive", "negative"}
          /\ analysis.out.sentiment = "negative" <=> analysis.out.score < NEGATIVE_BELOW
    /\ analysis.op = "analyze_reviews" =>
          /\ analysis.out.neutral_count = 0
          /\ analysis.out.positive_count + analysis.out.negative_count =
             analysis.out.total_count

\* a text was classified whose score is -0.5 itself, with evidence on both sides
C17_Witness ==
    /\ Classified
    /\ analysis.out.score = NEGATIVE_BELOW
    /\ analysis.out.sentiment = "positive"
    /\ analysis.out.negative_found # <<>>

\* C18: in analyze_reviews a rating of 1 or 2 turns a positive text label into
\* negative, a rating of 4 or 5 turns a negative text label into positive, and
\* a rating of 0 or 3 leaves the text label.
C18_RatingPushesLabel ==
    analysis.op = "analyze_reviews" =>
       \A k \in 1..Len(analysis.input) :
          LET rating == analysis.input[k].rating
              text_label == analysis.out.text_sentiments[k]
              counted == analysis.out.sentiments[k]
          IN  /\ (rating \in {1, 2} /\ text_label = "positive") => counted = "negative"
              /\ (rating \in {4, 5} /\ text_label = "negative") => counted = "positive"
              /\ rating \in {0, 3} => counted = text_label

\* C19: no brand is reported whose lower-cased name is part of, or holds, the
\* lower-cased own brand, when the own brand is not empty.
C19_OwnBrandNeverReported ==
    analysis.op = "find_competitor_mentions" =>
       LET own == Lower(analysis.input.current_brand)
       IN  own # <<>> =>
              \A b \in DOMAIN analysis.out :
                 ~(Contains(own, Lower(b)) \/ Contains(Lower(b), own))

\* the reviews mention a brand that the own brand is a part of, and another
\* brand, which is reported
C19_Witness ==
    /\ analysis.op = "find_competitor_mentions"
    /\ analysis.input.current_brand # <<>>
    /\ \E b \in COMPETITOR_BRANDS :
          /\ Contains(Lower(b), Lower(analysis.input.current_brand))
          /\ Lower(b) # Lower(analysis.input.current_brand)
          /\ \E k \in 1..Len(analysis.input.reviews) :
                Contains(Lower(analysis.input.reviews[k]), Lower(b))
    /\ DOMAIN analysis.out # {}

\* C20: every candidate extract_usp_candidates returns carries a sentence of
\* the reviews, split and stripped, of five characters or more.
C20_NoShortCandidate ==
    analysis.op = "extract_usp_candidates" =>
       \A k \in 1..Len(analysis.out) :
          /\ Len(analysis.out[k].sentence) >= MIN_SENTENCE_LENGTH
          /\ InSeq(analysis.out[k].sentence, SentencesOf(analysis.input))

\* the reviews hold a sentence with a trigger word that is shorter than five
\* characters once stripped, and a longer one, which is returned
C20_Witness ==
    /\ analysis.op = "extract_usp_candidates"
    /\ \E k \in 1..Len(SentencesOf(analysis.input)) :
          /\ Len(SentencesOf(analysis.input)[k]) < MIN_SENTENCE_LENGTH
          /\ find_trigger_words(keywords, SentencesOf(analysis.input)[k]).found
    /\ analysis.out # <<>>

\* the comparison markers (first pattern) and the brand-transition markers
\* (third pattern) of comparison_patterns
MarkerPatterns == {1, 3}

\* C27: for a review in which a pattern of a comparison or brand-transition
\* marker matches a clause longer than 10 characters, the result holds a
\* piece of that review that carries a marker of the pattern; no sentence is
\* in the result twice and the result has at most 20 entries.
C27_MarkerClauseReturned ==
    analysis.op = "extract_comparison_sentences" =>
       LET out == analysis.out
           reviews == analysis.input
       IN  /\ \A r \in 1..Len(reviews), n \in MarkerPatterns :
                 LET clause == Search(COMPARISON_PATTERNS[n], reviews[r])
                 IN  (clause.found /\ Len(Strip(clause.text)) > COMPARISON_MIN_LENGTH) =>
                        \E k \in 1..Len(out) :
                           /\ Contains(reviews[r], out[k])
                           /\ \E marker \in SeqToSet(COMPARISON_PATTERNS[n][2].lits) :
                                 Contains(out[k], marker)
           /\ \A a, b \in 1..Len(out) : a # b => out[a] # out[b]
           /\ Len(out) <= MAX_COMPARISONS

\* the place of a category in priority_categories
PriorityRank(category) ==
    CHOOSE n \in 1..Len(PRIORITY_CATEGORIES) : PRIORITY_CATEGORIES[n] = category

\* C26: the list extract_unique_features returns has at most 2 entries of a
\* category and at most 10 entries, follows the order of priority_categories,
\* and holds each review at most once, under the category of the first pattern
\* of unique_patterns that matches the review.
C26_FeaturesCapped ==
    analysis.op = "extract_unique_features" =>
       LET out == analysis.out
           reviews == analysis.input
       IN  /\ \A c \in SeqToSet(PRIORITY_CATEGORIES) :
                 Cardinality({k \in 1..Len(out) : out[k].category = c}) <= MAX_PER_CATEGORY
           /\ Len(out) <= MAX_FEATURES
           /\ \A a, b \in 1..Len(out) :
                 /\ a < b => PriorityRank(out[a].category) <= PriorityRank(out[b].category)
                 /\ a # b => out[a].text # out[b].text
           /\ \A k \in 1..Len(out) :
                 /\ \E r \in 1..Len(reviews) : reviews[r] = out[k].text
                 /\ \E n \in 1..Len(UNIQUE_PATTERNS) :
                       /\ UNIQUE_PATTERNS[n].category = out[k].category
                       /\ Search(UNIQUE_PATTERNS[n].pattern, out[k].text).found
                       /\ \A m \in 1..(n - 1) :
                             ~Search(UNIQUE_PATTERNS[m].pattern, out[k].text).found

\* a batch with more than ten matching reviews, three of them of one category:
\* ten entries came back
C26_Witness ==
    /\ analysis.op = "extract_unique_features"
    /\ Len(analysis.out) = MAX_FEATURES
    /\ Len(UniqueMentions(analysis.input)) > MAX_FEATURES
    /\ \E c \in SeqToSet(PRIORITY_CATEGORIES) :
          Len(CategoryFeatures_NoCap(UniqueMentions(analysis.input), c)) > MAX_PER_CATEGORY

\* C21: on an empty review list every batch call returns a well-formed empty
\* result: analyze_reviews all counts and the ratio 0 with empty lists,
\* analyze_marketing_points empty keyword, feature, competitor and comparison
\* fields, extract_usp_candidates an empty list, and detect_new_candidates on
\* no sentences an empty list.
C21_EmptyBatchGivesEmptyResult ==
    /\ (analysis.op = "analyze_reviews" /\ analysis.input = <<>>) =>
          /\ analysis.out.total_count = 0
          /\ analysis.out.positive_count = 0
          /\ analysis.out.negative_count = 0
          /\ analysis.out.neutral_count = 0
          /\ analysis.out.positive_ratio = 0
          /\ analysis.out.strengths = <<>>
          /\ analysis.out.weaknesses = <<>>
          /\ analysis.out.top_positive_keywords = <<>>
          /\ analysis.out.top_negative_keywords = <<>>
    /\ (analysis.op = "analyze_marketing_points" /\ analysis.input.reviews = <<>>) =>
          /\ analysis.out.repeated_keywords = <<>>
          /\ analysis.out.unique_features = <<>>
          /\ analysis.out.competitor_mentions = <<>>
          /\ analysis.out.comparison_insights = <<>>
    /\ (analysis.op = "extract_usp_candidates" /\ analysis.input = <<>>) =>
          analysis.out = <<>>
    /\ (analysis.op = "detect_new_candidates" /\ analysis.input = <<>>) =>
          analysis.out = <<>>

\* analyze_marketing_points was called on no reviews and returned its notice
C21_Witness ==
    /\ analysis.op = "analyze_marketing_points"
    /\ analysis.input.reviews = <<>>
    /\ analysis.out.marketing_suggestions = <<NoReviewsNotice>>

====
